---- MODULE Spec2Model ----
(***************************************************************************)
(* A model of the eoreader Sentinel-3 band pipeline and of its spectral    *)
(* index engine:                                                           *)
(*   - src/eoreader/products/optical/s3_slstr_product.py  (S3SlstrProduct) *)
(*   - src/eoreader/products/s3_product.py                (S3Product)      *)
(*   - src/eoreader/bands/index.py                        (index catalog)  *)
(* and of the band reader of src/eoreader/products/sar/csg_product.py.     *)
(*                                                                         *)
(* Numbers.  Pixel values are fixed-point integers in units of 1/10000,    *)
(* coefficients are integers in units of 1/100.  Names the code builds by  *)
(* string formatting are tuples of their parts: the suffix "an" is         *)
(* <<"a", "n">>, the file "geodetic_an.nc" is <<"geodetic", <<"a","n">>>>. *)
(***************************************************************************)
EXTENDS Integers, Sequences, FiniteSets, TLC

VARIABLES
    call,       \* the last call of a side-effect-free function: inputs and result
    suffix,     \* S3SlstrProduct._suffix
    members,    \* the members set by S3SlstrProduct._set_preprocess_members
    files,      \* the band folder: file key -> content (keys absent = no file)
    gcps,       \* S3SlstrProduct._gcps: a defaultdict(list), suffix -> GCP sequence
    frame,      \* per caller: the locals of the call it is executing
    done,       \* per caller: what its last finished call returned
    stats,      \* instrumentation: how often each expensive computation ran
    ncalls,     \* number of calls started so far
    csg         \* a COSMO-SkyMed 2nd Generation product: its type, mode and resolution

vars == <<call, suffix, members, files, gcps, frame, done, stats, ncalls, csg>>

None == "None"

(***************************************************************************)
(* Fixed-point arithmetic                                                  *)
(***************************************************************************)
\* value (1/10000) times coefficient (1/100)
Mul(v, c) == (v * c) \div 100

MulArr(px, c) == [i \in DOMAIN px |-> Mul(px[i], c)]

(***************************************************************************)
(* s3_slstr_product.py: module constants                                   *)
(***************************************************************************)
SUFFIX_500m == {<<"a", "n">>, <<"a", "o">>, <<"b", "n">>, <<"b", "o">>}
SUFFIX_1km == {<<"i", "n">>, <<"i", "o">>, <<"f", "n">>, <<"f", "o">>}
SLSTR_SUFFIX == SUFFIX_500m \cup SUFFIX_1km

SLSTR_RAD_BANDS == <<"S1", "S2", "S3", "S4", "S5", "S6">>
SLSTR_BT_BANDS == <<"S7", "S8", "S9", "F1", "F2">>

Range(s) == {s[i] : i \in DOMAIN s}

\* FIELDS: one field per (radiance channel, view), nadir then oblique
FIELDS == {<<ch, v>> : ch \in Range(SLSTR_RAD_BANDS), v \in {"n", "o"}}

\* the namedtuple default of every field, 1.0
DefaultCoeff == 100


\* a tuple whose unlisted fields are 0.0
SlstrRadAdjustTupleZero(listed) ==
    [f \in FIELDS |-> IF f \in DOMAIN listed THEN listed[f] ELSE 0]

\* SlstrRadAdjustTuple(**listed): the listed fields, every other field at its default
SlstrRadAdjustTuple(listed) ==
    [f \in FIELDS |-> IF f \in DOMAIN listed THEN listed[f] ELSE DefaultCoeff]

Listing(pairs) == [f \in {p[1] : p \in pairs} |-> (CHOOSE p \in pairs : p[1] = f)[2]]

SNAP_Listed ==
    Listing({ <<<<"S5", "n">>, 112>>, <<<<"S6", "n">>, 113>>,
              <<<<"S5", "o">>, 115>>, <<<<"S6", "o">>, 114>> })

PN06_Listed ==
    Listing({ <<<<"S5", "n">>, 112>>, <<<<"S6", "n">>, 115>>,
              <<<<"S5", "o">>, 120>>, <<<<"S6", "o">>, 126>> })

PN08_Listed ==
    Listing({ <<<<"S1", "n">>, 97>>, <<<<"S2", "n">>, 98>>, <<<<"S3", "n">>, 98>>,
              <<<<"S5", "n">>, 111>>, <<<<"S6", "n">>, 113>>,
              <<<<"S1", "o">>, 94>>, <<<<"S2", "o">>, 95>>, <<<<"S3", "o">>, 95>>,
              <<<<"S5", "o">>, 104>>, <<<<"S6", "o">>, 107>> })

NONE_Listed == Listing({})

\* class SlstrRadAdjust: the member names (S3_PN_SLSTR_L1_07 is an alias of _06)
SlstrRadAdjustNames ==
    {"SNAP", "S3_PN_SLSTR_L1_06", "S3_PN_SLSTR_L1_07", "S3_PN_SLSTR_L1_08", "NONE"}

ListedOf(name) ==
    CASE name = "SNAP" -> SNAP_Listed
      [] name = "S3_PN_SLSTR_L1_06" -> PN06_Listed
      [] name = "S3_PN_SLSTR_L1_07" -> PN06_Listed
      [] name = "S3_PN_SLSTR_L1_08" -> PN08_Listed
      [] name = "NONE" -> NONE_Listed

\* SlstrRadAdjust.<name>.value
SlstrRadAdjust(name) == SlstrRadAdjustTuple(ListedOf(name))

\* the default of the SLSTR_RAD_ADJUST keyword
DefaultRadAdjust == "S3_PN_SLSTR_L1_08"

(***************************************************************************)
(* s3_slstr_product.py: the SLSTR band mapping (_set_product_type)         *)
(***************************************************************************)
\* the optical band names the SLSTR reader and the index catalog use
OpticalBandNames ==
    {"CA", "BLUE", "GREEN", "YELLOW", "RED", "VRE_1", "VRE_2", "VRE_3", "NIR",
     "NARROW_NIR", "WV", "SWIR_CIRRUS", "SWIR_1", "SWIR_2", "TIR_1", "TIR_2"}

\* the dictionary handed to band_names.map_bands (the code's indices are 0-based)
SlstrMap ==
    [b \in {"GREEN", "RED", "NIR", "NARROW_NIR", "SWIR_CIRRUS", "SWIR_1", "SWIR_2"} |->
        CASE b = "GREEN" -> SLSTR_RAD_BANDS[1]
          [] b = "RED" -> SLSTR_RAD_BANDS[2]
          [] b = "NIR" -> SLSTR_RAD_BANDS[3]
          [] b = "NARROW_NIR" -> SLSTR_RAD_BANDS[4]
          [] b = "SWIR_CIRRUS" -> SLSTR_RAD_BANDS[4]
          [] b = "SWIR_1" -> SLSTR_RAD_BANDS[5]
          [] b = "SWIR_2" -> SLSTR_RAD_BANDS[6]]

\* self.band_names of an SLSTR product: every optical band, None unless mapped
SlstrBandNames ==
    [b \in OpticalBandNames |-> IF b \in DOMAIN SlstrMap THEN SlstrMap[b] ELSE None]

\* self.band_names[band]: a KeyError for a key that is no optical band
\* (a file name such as the flags file)
IsBandKey(band) == band \in OpticalBandNames

(***************************************************************************)
(* s3_slstr_product.py: _radiance_adjustment                               *)
(***************************************************************************)
\* the coefficient _radiance_adjustment multiplies by; sfx is self._suffix
RadCoeff(band, rad_adjust, sfx) ==
    LET band_name == SlstrBandNames[band]
    IN  IF band_name \in Range(SLSTR_RAD_BANDS)
        THEN SlstrRadAdjust(rad_adjust)[<<band_name, sfx[2]>>]
        ELSE 100   \* brilliance temperature

RadianceAdjustment(px, band, rad_adjust, sfx) ==
    IF IsBandKey(band)
    THEN MulArr(px, RadCoeff(band, rad_adjust, sfx))
    ELSE px    \* except KeyError: not a band (ie quality flags)

(***************************************************************************)
(* s3_product.py: S3Product band mapping and get_snap_band_name            *)
(***************************************************************************)
S3BandNameSet ==
    {"CA", "BLUE", "GREEN", "RED", "VRE_1", "VRE_2", "VRE_3", "NIR", "NNIR", "WV",
     "FNIR", "CIRRUS", "SWIR_1", "SWIR_2", "MIR", "TIR_1", "TIR_2"}

BT_BANDS == {"MIR", "TIR_1", "TIR_2"}

S3ProductTypes == {"OLCI_EFR", "SLSTR_RBT"}

\* S3DataTypes member of a product type
DataType(ptype) == IF ptype = "OLCI_EFR" THEN "EFR" ELSE "RBT"

OlciMap ==
    [b \in {"CA", "BLUE", "GREEN", "RED", "VRE_1", "VRE_2", "VRE_3", "NIR", "NNIR",
            "WV", "FNIR"} |->
        CASE b = "CA" -> "02" [] b = "BLUE" -> "03" [] b = "GREEN" -> "06"
          [] b = "RED" -> "08" [] b = "VRE_1" -> "11" [] b = "VRE_2" -> "12"
          [] b = "VRE_3" -> "16" [] b = "NIR" -> "17" [] b = "NNIR" -> "17"
          [] b = "WV" -> "20" [] b = "FNIR" -> "21"]

RbtMap ==
    [b \in {"GREEN", "RED", "NIR", "NNIR", "CIRRUS", "SWIR_1", "SWIR_2", "MIR",
            "TIR_1", "TIR_2"} |->
        CASE b = "GREEN" -> "1" [] b = "RED" -> "2" [] b = "NIR" -> "3"
          [] b = "NNIR" -> "3" [] b = "CIRRUS" -> "4" [] b = "SWIR_1" -> "5"
          [] b = "SWIR_2" -> "6" [] b = "MIR" -> "7" [] b = "TIR_1" -> "8"
          [] b = "TIR_2" -> "9"]

\* get_product_type: the dictionary handed to map_bands for the product type
S3Map(ptype) == IF ptype = "OLCI_EFR" THEN OlciMap ELSE RbtMap

\* self.band_names after get_product_type: None for every band not mapped
S3BandNames(ptype) ==
    [b \in S3BandNameSet |-> IF b \in DOMAIN S3Map(ptype) THEN S3Map(ptype)[b] ELSE None]

\* a band that is not mapped resolves to the first channel
GetSnapBandNameDefaulting(ptype, band) ==
    LET band_nb == S3BandNames(ptype)[band]
        nb == IF band_nb = None THEN "1" ELSE band_nb
    IN  [kind |-> "ok", name |-> <<"S", nb, "_reflectance_an">>, band_nb |-> nb]

\* get_snap_band_name: the SNAP name built around the band number, or the error raised
GetSnapBandName(ptype, band) ==
    LET band_nb == S3BandNames(ptype)[band]
    IN  IF band_nb = None
        THEN [kind |-> "InvalidProductError", band |-> band, data_type |-> DataType(ptype)]
        ELSE IF DataType(ptype) = "EFR"
        THEN [kind |-> "ok", name |-> <<"Oa", band_nb, "_reflectance">>, band_nb |-> band_nb]
        ELSE IF band \in BT_BANDS
        THEN [kind |-> "ok", name |-> <<"S", band_nb, "_BT_in">>, band_nb |-> band_nb]
        ELSE [kind |-> "ok", name |-> <<"S", band_nb, "_reflectance_an">>, band_nb |-> band_nb]

(***************************************************************************)
(* bands/index.py: the index catalog                                       *)
(***************************************************************************)
\* a member of the module: its name, what it is, whether name[0].isupper(), and
\* whether it is defined under the decorator @_idx_fct
M(name, kind, upper, decorated) ==
    [name |-> name, kind |-> kind, upper |-> upper, decorated |-> decorated]

\* the public names of the module bands/index.py in the order of inspect.getmembers
\* (sorted by name: upper case, underscore, lower case)
ModuleMembers ==
    <<M("AFRI_1_6", "function", TRUE, TRUE),
      M("AFRI_2_1", "function", TRUE, TRUE),
      M("AWEInsh", "function", TRUE, TRUE),
      M("AWEIsh", "function", TRUE, TRUE),
      M("BAI", "function", TRUE, TRUE),
      M("BAIS2", "function", TRUE, TRUE),
      M("BSI", "function", TRUE, TRUE),
      M("CIG", "function", TRUE, TRUE),
      M("Callable", "value", TRUE, FALSE),
      M("DSWI", "function", TRUE, TRUE),
      M("EOREADER_NAME", "value", TRUE, FALSE),
      M("GLI", "function", TRUE, TRUE),
      M("GNDVI", "function", TRUE, TRUE),
      M("GVMI", "function", TRUE, TRUE),
      M("LOGGER", "value", TRUE, FALSE),
      M("MNDWI", "function", TRUE, TRUE),
      M("NBR", "function", TRUE, TRUE),
      M("NDGRI", "function", TRUE, TRUE),
      M("NDMI", "function", TRUE, TRUE),
      M("NDRE2", "function", TRUE, TRUE),
      M("NDRE3", "function", TRUE, TRUE),
      M("NDVI", "function", TRUE, TRUE),
      M("NDWI", "function", TRUE, TRUE),
      M("NEEDED_BANDS", "value", TRUE, FALSE),
      M("PANI", "function", TRUE, TRUE),
      M("RDI", "function", TRUE, TRUE),
      M("RGI", "function", TRUE, TRUE),
      M("RI", "function", TRUE, TRUE),
      M("SBI", "function", TRUE, TRUE),
      M("SCI", "function", TRUE, TRUE),
      M("SI", "function", TRUE, TRUE),
      M("SRSWIR", "function", TRUE, TRUE),
      M("TCBRI", "function", TRUE, TRUE),
      M("TCGRE", "function", TRUE, TRUE),
      M("TCWET", "function", TRUE, TRUE),
      M("WI", "function", TRUE, TRUE),
      M("WV_BI", "function", TRUE, TRUE),
      M("WV_SI", "function", TRUE, TRUE),
      M("WV_VI", "function", TRUE, TRUE),
      M("WV_WI", "function", TRUE, TRUE),
      M("_idx_fct", "function", FALSE, FALSE),
      M("_norm_diff", "function", FALSE, FALSE),
      M("get_all_index_names", "function", FALSE, FALSE),
      M("get_all_indices", "function", FALSE, FALSE),
      M("get_all_needed_bands", "function", FALSE, FALSE),
      M("get_needed_bands", "function", FALSE, FALSE),
      M("inspect", "module", FALSE, FALSE),
      M("logging", "module", FALSE, FALSE),
      M("np", "module", FALSE, FALSE),
      M("obn", "class", FALSE, FALSE),
      M("rasters", "module", FALSE, FALSE),
      M("re", "module", FALSE, FALSE),
      M("sys", "module", FALSE, FALSE),
      M("wraps", "function", FALSE, FALSE),
      M("xr", "module", FALSE, FALSE)>>

\* get_all_indices without the test of the name
GetAllIndicesUnfiltered ==
    SelectSeq(ModuleMembers, LAMBDA m : m.kind = "function")

\* get_all_indices: the members that are functions and whose name starts with an
\* upper-case letter
GetAllIndices ==
    SelectSeq(ModuleMembers, LAMBDA m : m.kind = "function" /\ m.upper)

\* get_all_index_names: [idx_fct.__name__ for idx_fct in get_all_indices()]
IndexNames == [i \in DOMAIN GetAllIndices |-> GetAllIndices[i].name]

\* the band references re.findall(r"obn\.\w+") finds in the source text of each
\* index function (decorator line, signature, docstring, comments and body)
SourceBandRefs(idx) ==
    CASE idx = "RGI" -> <<"RED", "GREEN">>
      [] idx = "NDVI" -> <<"NIR", "RED">>
      [] idx = "TCBRI" -> <<"BLUE", "GREEN", "RED", "NIR", "SWIR_1", "SWIR_2">>
      [] idx = "TCGRE" -> <<"BLUE", "GREEN", "RED", "NIR", "SWIR_1", "SWIR_2">>
      [] idx = "TCWET" -> <<"BLUE", "GREEN", "RED", "NIR", "SWIR_1", "SWIR_2">>
      [] idx = "NDRE2" -> <<"NIR", "VRE_1">>
      [] idx = "NDRE3" -> <<"NIR", "VRE_2">>
      [] idx = "GLI" -> <<"GREEN", "RED", "BLUE", "GREEN", "RED", "BLUE">>
      [] idx = "GNDVI" -> <<"NIR", "GREEN">>
      [] idx = "RI" -> <<"VRE_1", "GREEN">>
      [] idx = "NDGRI" -> <<"GREEN", "RED">>
      [] idx = "CIG" -> <<"NIR", "GREEN">>
      [] idx = "NDMI" -> <<"NIR", "SWIR_1">>
      [] idx = "DSWI" -> <<"NIR", "GREEN", "SWIR_1", "RED">>
      [] idx = "SRSWIR" -> <<"SWIR_1", "SWIR_2">>
      [] idx = "RDI" -> <<"SWIR_2", "NARROW_NIR">>
      [] idx = "NDWI" -> <<"GREEN", "NIR">>
      [] idx = "BAI" -> <<"RED", "NIR">>
      [] idx = "BAIS2" -> <<"VRE_2", "VRE_3", "NARROW_NIR", "RED", "SWIR_2", "NARROW_NIR", "SWIR_2", "NARROW_NIR">>
      [] idx = "NBR" -> <<"NARROW_NIR", "SWIR_2">>
      [] idx = "MNDWI" -> <<"GREEN", "SWIR_1">>
      [] idx = "AWEInsh" -> <<"GREEN", "SWIR_1", "NIR", "SWIR_2">>
      [] idx = "AWEIsh" -> <<"BLUE", "GREEN", "NIR", "SWIR_1", "SWIR_2">>
      [] idx = "WI" -> <<"GREEN", "RED", "NIR", "SWIR_1", "SWIR_2">>
      [] idx = "AFRI_1_6" -> <<"NIR", "SWIR_1">>
      [] idx = "AFRI_2_1" -> <<"NIR", "SWIR_2">>
      [] idx = "BSI" -> <<"RED", "SWIR_1", "NIR", "BLUE">>
      [] idx = "WV_WI" -> <<"WV", "CA">>
      [] idx = "WV_VI" -> <<"WV", "RED">>
      [] idx = "WV_SI" -> <<"YELLOW", "GREEN">>
      [] idx = "WV_BI" -> <<"VRE_1", "CA">>
      [] idx = "SI" -> <<"GREEN", "GREEN", "RED", "RED">>
      [] idx = "GVMI" -> <<"NIR", "SWIR_2">>
      [] idx = "SBI" -> <<"RED", "NIR">>
      [] idx = "SCI" -> <<"GREEN", "RED">>
      [] idx = "PANI" -> <<"RED", "GREEN", "BLUE">>

\* the expression each index function returns (local assignments inlined)
Formula(idx) ==
    CASE idx = "RGI" ->
           <<"div", <<"band", "RED">>, <<"band", "GREEN">>>>
      [] idx = "NDVI" ->
           <<"norm_diff", <<"band", "NIR">>, <<"band", "RED">>>>
      [] idx = "TCBRI" ->
           <<"add", <<"add", <<"add", <<"add", <<"add", <<"mul", <<"const", 3037, 10000>>, <<"band", "BLUE">>>>, <<"mul", <<"const", 2793, 10000>>, <<"band", "GREEN">>>>>>, <<"mul", <<"const", 4743, 10000>>, <<"band", "RED">>>>>>, <<"mul", <<"const", 1117, 2000>>, <<"band", "NIR">>>>>>, <<"mul", <<"const", 2541, 5000>>, <<"band", "SWIR_1">>>>>>, <<"mul", <<"const", 1863, 10000>>, <<"band", "SWIR_2">>>>>>
      [] idx = "TCGRE" ->
           <<"sub", <<"add", <<"add", <<"sub", <<"sub", <<"mul", <<"const", -178, 625>>, <<"band", "BLUE">>>>, <<"mul", <<"const", 487, 2000>>, <<"band", "GREEN">>>>>>, <<"mul", <<"const", 1359, 2500>>, <<"band", "RED">>>>>>, <<"mul", <<"const", 7243, 10000>>, <<"band", "NIR">>>>>>, <<"mul", <<"const", 21, 250>>, <<"band", "SWIR_1">>>>>>, <<"mul", <<"const", 9, 50>>, <<"band", "SWIR_2">>>>>>
      [] idx = "TCWET" ->
           <<"sub", <<"sub", <<"add", <<"add", <<"add", <<"mul", <<"const", 1509, 10000>>, <<"band", "BLUE">>>>, <<"mul", <<"const", 1973, 10000>>, <<"band", "GREEN">>>>>>, <<"mul", <<"const", 3279, 10000>>, <<"band", "RED">>>>>>, <<"mul", <<"const", 1703, 5000>>, <<"band", "NIR">>>>>>, <<"mul", <<"const", 889, 1250>>, <<"band", "SWIR_1">>>>>>, <<"mul", <<"const", 1143, 2500>>, <<"band", "SWIR_2">>>>>>
      [] idx = "NDRE2" ->
           <<"norm_diff", <<"band", "NIR">>, <<"band", "VRE_1">>>>
      [] idx = "NDRE3" ->
           <<"norm_diff", <<"band", "NIR">>, <<"band", "VRE_2">>>>
      [] idx = "GLI" ->
           <<"div", <<"sub", <<"sub", <<"mul", <<"const", 2, 1>>, <<"band", "GREEN">>>>, <<"band", "RED">>>>, <<"band", "BLUE">>>>, <<"add", <<"add", <<"mul", <<"const", 2, 1>>, <<"band", "GREEN">>>>, <<"band", "RED">>>>, <<"band", "BLUE">>>>>>
      [] idx = "GNDVI" ->
           <<"norm_diff", <<"band", "NIR">>, <<"band", "GREEN">>>>
      [] idx = "RI" ->
           <<"norm_diff", <<"band", "VRE_1">>, <<"band", "GREEN">>>>
      [] idx = "NDGRI" ->
           <<"norm_diff", <<"band", "GREEN">>, <<"band", "RED">>>>
      [] idx = "CIG" ->
           <<"sub", <<"div", <<"band", "NIR">>, <<"band", "GREEN">>>>, <<"const", 1, 1>>>>
      [] idx = "NDMI" ->
           <<"norm_diff", <<"band", "NIR">>, <<"band", "SWIR_1">>>>
      [] idx = "DSWI" ->
           <<"div", <<"add", <<"band", "NIR">>, <<"band", "GREEN">>>>, <<"add", <<"band", "SWIR_1">>, <<"band", "RED">>>>>>
      [] idx = "SRSWIR" ->
           <<"div", <<"band", "SWIR_1">>, <<"band", "SWIR_2">>>>
      [] idx = "RDI" ->
           <<"div", <<"band", "SWIR_2">>, <<"band", "NARROW_NIR">>>>
      [] idx = "NDWI" ->
           <<"norm_diff", <<"band", "GREEN">>, <<"band", "NIR">>>>
      [] idx = "BAI" ->
           <<"div", <<"const", 1, 1>>, <<"add", <<"pow", <<"sub", <<"const", 1, 10>>, <<"band", "RED">>>>, <<"const", 2, 1>>>>, <<"pow", <<"sub", <<"const", 3, 50>>, <<"band", "NIR">>>>, <<"const", 2, 1>>>>>>>>
      [] idx = "BAIS2" ->
           <<"mul", <<"sub", <<"const", 1, 1>>, <<"pow", <<"div", <<"mul", <<"mul", <<"band", "VRE_2">>, <<"band", "VRE_3">>>>, <<"band", "NARROW_NIR">>>>, <<"band", "RED">>>>, <<"const", 1, 2>>>>>>, <<"add", <<"const", 1, 1>>, <<"div", <<"sub", <<"band", "SWIR_2">>, <<"band", "NARROW_NIR">>>>, <<"pow", <<"add", <<"band", "SWIR_2">>, <<"band", "NARROW_NIR">>>>, <<"const", 1, 2>>>>>>>>>>
      [] idx = "NBR" ->
           <<"norm_diff", <<"band", "NARROW_NIR">>, <<"band", "SWIR_2">>>>
      [] idx = "MNDWI" ->
           <<"norm_diff", <<"band", "GREEN">>, <<"band", "SWIR_1">>>>
      [] idx = "AWEInsh" ->
           <<"sub", <<"mul", <<"const", 4, 1>>, <<"sub", <<"band", "GREEN">>, <<"band", "SWIR_1">>>>>>, <<"add", <<"mul", <<"const", 1, 4>>, <<"band", "NIR">>>>, <<"mul", <<"const", 11, 4>>, <<"band", "SWIR_2">>>>>>>>
      [] idx = "AWEIsh" ->
           <<"sub", <<"sub", <<"add", <<"band", "BLUE">>, <<"mul", <<"const", 5, 2>>, <<"band", "GREEN">>>>>>, <<"mul", <<"const", 3, 2>>, <<"add", <<"band", "NIR">>, <<"band", "SWIR_1">>>>>>>>, <<"mul", <<"const", 1, 4>>, <<"band", "SWIR_2">>>>>>
      [] idx = "WI" ->
           <<"sub", <<"sub", <<"sub", <<"add", <<"add", <<"const", 4301, 2500>>, <<"mul", <<"const", 171, 1>>, <<"band", "GREEN">>>>>>, <<"mul", <<"const", 3, 1>>, <<"band", "RED">>>>>>, <<"mul", <<"const", 70, 1>>, <<"band", "NIR">>>>>>, <<"mul", <<"const", 45, 1>>, <<"band", "SWIR_1">>>>>>, <<"mul", <<"const", 71, 1>>, <<"band", "SWIR_2">>>>>>
      [] idx = "AFRI_1_6" ->
           <<"norm_diff", <<"band", "NIR">>, <<"mul", <<"const", 33, 50>>, <<"band", "SWIR_1">>>>>>
      [] idx = "AFRI_2_1" ->
           <<"norm_diff", <<"band", "NIR">>, <<"mul", <<"const", 1, 2>>, <<"band", "SWIR_2">>>>>>
      [] idx = "BSI" ->
           <<"norm_diff", <<"add", <<"band", "RED">>, <<"band", "SWIR_1">>>>, <<"add", <<"band", "NIR">>, <<"band", "BLUE">>>>>>
      [] idx = "WV_WI" ->
           <<"norm_diff", <<"band", "WV">>, <<"band", "CA">>>>
      [] idx = "WV_VI" ->
           <<"norm_diff", <<"band", "WV">>, <<"band", "RED">>>>
      [] idx = "WV_SI" ->
           <<"norm_diff", <<"band", "YELLOW">>, <<"band", "GREEN">>>>
      [] idx = "WV_BI" ->
           <<"norm_diff", <<"band", "VRE_1">>, <<"band", "CA">>>>
      [] idx = "SI" ->
           <<"sqrt", <<"mul", <<"where_lt0_0", <<"sub", <<"nanpercentile", <<"band", "GREEN">>, <<"const", 99, 1>>>>, <<"band", "GREEN">>>>>>, <<"where_lt0_0", <<"sub", <<"nanpercentile", <<"band", "RED">>, <<"const", 99, 1>>>>, <<"band", "RED">>>>>>>>>>
      [] idx = "GVMI" ->
           <<"norm_diff", <<"add", <<"band", "NIR">>, <<"const", 1, 10>>>>, <<"add", <<"band", "SWIR_2">>, <<"const", 1, 50>>>>>>
      [] idx = "SBI" ->
           <<"sqrt", <<"add", <<"pow", <<"band", "RED">>, <<"const", 2, 1>>>>, <<"pow", <<"band", "NIR">>, <<"const", 2, 1>>>>>>>>
      [] idx = "SCI" ->
           <<"sub", <<"sub", <<"mul", <<"const", 3, 1>>, <<"band", "GREEN">>>>, <<"band", "RED">>>>, <<"const", 100, 1>>>>
      [] idx = "PANI" ->
           <<"sqrt", <<"add", <<"add", <<"pow", <<"band", "RED">>, <<"const", 2, 1>>>>, <<"pow", <<"band", "GREEN">>, <<"const", 2, 1>>>>>>, <<"pow", <<"band", "BLUE">>, <<"const", 2, 1>>>>>>>>

(***************************************************************************)
(* bands/index.py: get_needed_bands, get_all_needed_bands, NEEDED_BANDS    *)
(***************************************************************************)
\* only the first match of the band regex
FirstNeededBand(idx) == <<SourceBandRefs(idx)[1]>>

\* get_needed_bands: one entry per match of the band regex, in source order
GetNeededBands(idx) == SourceBandRefs(idx)

\* get_all_needed_bands / NEEDED_BANDS: index -> needed bands
NEEDED_BANDS ==
    [idx \in {ModuleMembers[i].name : i \in
                {j \in DOMAIN ModuleMembers :
                    ModuleMembers[j].kind = "function" /\ ModuleMembers[j].upper}} |->
        GetNeededBands(idx)]

(***************************************************************************)
(* bands/index.py: evaluation of an index function                         *)
(*                                                                         *)
(* Python evaluates operands left to right and an operator after its       *)
(* operands: the events of a formula are its band look-ups (bands[obn.X])  *)
(* and its array operations, in that order.                                *)
(***************************************************************************)
ReadEv(b) == [e |-> "read", name |-> b]
OpEv(o) == [e |-> "op", name |-> o]

UnaryOps == {"sqrt", "where_lt0_0", "neg"}
BinaryOps == {"add", "sub", "mul", "div", "pow", "nanpercentile"}

RECURSIVE Events(_)
Events(f) ==
    CASE f[1] = "band" -> <<ReadEv(f[2])>>
      [] f[1] = "const" -> <<>>
      [] f[1] \in UnaryOps -> Events(f[2]) \o <<OpEv(f[1])>>
      [] f[1] \in BinaryOps -> Events(f[2]) \o Events(f[3]) \o <<OpEv(f[1])>>
         \* _norm_diff(band_1, band_2): (band_1 - band_2) / (band_1 + band_2)
      [] f[1] = "norm_diff" ->
            Events(f[2]) \o Events(f[3]) \o <<OpEv("sub"), OpEv("add"), OpEv("div")>>

\* the bands the formula looks up, in evaluation order
FormulaReads(idx) ==
    LET ev == Events(Formula(idx))
        rd == SelectSeq(ev, LAMBDA x : x.e = "read")
    IN  [i \in DOMAIN rd |-> rd[i].name]

\* the position of the first look-up of a band that is no key of the dictionary
\* (0: every look-up succeeds)
FirstFailing(ev, keys) ==
    LET bad == {i \in DOMAIN ev : ev[i].e = "read" /\ ev[i].name \notin keys}
    IN  IF bad = {} THEN 0 ELSE CHOOSE i \in bad : \A j \in bad : i <= j

CountOps(ev) == Len(SelectSeq(ev, LAMBDA x : x.e = "op"))

\* rasters.set_metadata(naked, mtd, new_name): the georeferencing, no-data and
\* attributes of mtd on naked, renamed
SetMetadata(naked, mtd, new_name) ==
    [res |-> naked.res, crs |-> mtd.crs, nodata |-> mtd.nodata,
     attrs |-> mtd.attrs, name |-> new_name]


\* the last array of the dictionary as the template
IdxFctWrapperLast(idx, keys, arrs) ==
    LET ev == Events(Formula(idx))
        k == FirstFailing(ev, Range(keys))
    IN  IF k # 0
        THEN [kind |-> "KeyError", band |-> ev[k].name,
              ops_done |-> CountOps(SubSeq(ev, 1, k - 1))]
        ELSE [kind |-> "ok", ops_done |-> CountOps(ev),
              xda |-> SetMetadata(arrs[Len(arrs)], arrs[Len(arrs)], idx)]

\* _idx_fct_wrapper(bands): bands is a dictionary, given as its keys in insertion
\* order and the arrays (here: their metadata) in the same order
IdxFctWrapper(idx, keys, arrs) ==
    LET ev == Events(Formula(idx))
        k == FirstFailing(ev, Range(keys))
    IN  IF k # 0
        THEN \* function(...) raises at bands[obn.X]
             [kind |-> "KeyError", band |-> ev[k].name,
              ops_done |-> CountOps(SubSeq(ev, 1, k - 1))]
        ELSE \* first_xda = list(bands.values())[0]; copy(data=out_np); set_metadata
             [kind |-> "ok", ops_done |-> CountOps(ev),
              xda |-> SetMetadata(arrs[1], arrs[1], idx)]

(***************************************************************************)
(* bands/index.py: the values an index function computes                   *)
(*                                                                         *)
(* A floating-point number is a pair <<n, d>>: the fraction n/d in lowest  *)
(* terms when d > 0, +inf as <<1, 0>>, -inf as <<-1, 0>> and not-a-number  *)
(* as <<0, 0>>. Rounding is left out; the special values follow IEEE 754,  *)
(* which numpy applies once np.seterr has silenced the warnings.           *)
(***************************************************************************)
Abs(n) == IF n < 0 THEN -n ELSE n

Sign(n) == IF n < 0 THEN -1 ELSE IF n > 0 THEN 1 ELSE 0

RECURSIVE Gcd(_, _)
Gcd(a, b) == IF b = 0 THEN Abs(a) ELSE Gcd(b, a % b)

\* the fraction n/d, d # 0, in lowest terms with a positive denominator
F(n, d) ==
    LET g == Gcd(n, d)
    IN  <<Sign(d) * (n \div g), Abs(d) \div g>>

FNan == <<0, 0>>

FInf(s) == <<s, 0>>

FZero == <<0, 1>>

FIsNan(x) == x = FNan

FIsInf(x) == x[2] = 0 /\ x[1] # 0

FIsFinite(x) == x[2] > 0

FNeg(x) == <<-x[1], x[2]>>

\* a + b
FAdd(a, b) ==
    IF FIsNan(a) \/ FIsNan(b) THEN FNan
    ELSE IF FIsInf(a) /\ FIsInf(b) THEN (IF a = b THEN a ELSE FNan)
    ELSE IF FIsInf(a) THEN a
    ELSE IF FIsInf(b) THEN b
    ELSE LET g == Gcd(a[2], b[2])
         IN  F(a[1] * (b[2] \div g) + b[1] * (a[2] \div g), (a[2] \div g) * b[2])

\* b - a
FSubSwapped(a, b) == FAdd(b, FNeg(a))

\* a - b
FSub(a, b) == FAdd(a, FNeg(b))

\* a * b
FMul(a, b) ==
    IF FIsNan(a) \/ FIsNan(b) THEN FNan
    ELSE IF FIsInf(a) \/ FIsInf(b)
         THEN (IF a[1] = 0 \/ b[1] = 0 THEN FNan ELSE FInf(Sign(a[1]) * Sign(b[1])))
    ELSE LET g1 == Gcd(a[1], b[2])
             g2 == Gcd(b[1], a[2])
         IN  IF a[1] = 0 \/ b[1] = 0 THEN FZero
             ELSE F((a[1] \div g1) * (b[1] \div g2), (a[2] \div g2) * (b[2] \div g1))

\* a / b with divide="ignore", invalid="ignore": x/0 is +-inf for x # 0, 0/0 is nan
FDiv(a, b) ==
    IF FIsNan(a) \/ FIsNan(b) THEN FNan
    ELSE IF FIsInf(b) THEN (IF FIsInf(a) THEN FNan ELSE FZero)
    ELSE IF FIsInf(a) THEN FInf(a[1] * (IF b[1] < 0 THEN -1 ELSE 1))
    ELSE IF b[1] = 0 THEN (IF a[1] = 0 THEN FNan ELSE FInf(Sign(a[1])))
    ELSE FMul(a, <<Sign(b[1]) * b[2], Abs(b[1])>>)

\* a < b, False when either is nan
FLt(a, b) ==
    IF FIsNan(a) \/ FIsNan(b) THEN FALSE
    ELSE IF FIsInf(a) THEN a = FInf(-1) /\ b # FInf(-1)
    ELSE IF FIsInf(b) THEN b = FInf(1)
    ELSE LET g == Gcd(a[2], b[2])
         IN  a[1] * (b[2] \div g) < b[1] * (a[2] \div g)

RECURSIVE IsqrtBetween(_, _, _)
IsqrtBetween(x, lo, hi) ==
    IF lo = hi THEN lo
    ELSE LET mid == (lo + hi + 1) \div 2
         IN  IF mid * mid <= x THEN IsqrtBetween(x, mid, hi)
             ELSE IsqrtBetween(x, lo, mid - 1)

\* the integer square root
Isqrt(x) == IsqrtBetween(x, 0, IF x < 40000 THEN 200 ELSE 40000)

\* the digits kept of an irrational square root: 1/SqrtScale
SqrtScale == 100

\* np.sqrt(a): nan below zero
FSqrt(a) ==
    IF FIsNan(a) \/ a[1] < 0 THEN FNan
    ELSE IF FIsInf(a) THEN a
    ELSE LET rn == Isqrt(a[1])
             rd == Isqrt(a[2])
         IN  IF rn * rn = a[1] /\ rd * rd = a[2] THEN F(rn, rd)
             ELSE F(Isqrt((a[1] * SqrtScale * SqrtScale) \div a[2]), SqrtScale)

\* a ** e for the exponents of the index functions, 2 and 0.5 (pow(-inf, 0.5) = +inf)
FPow(a, e) ==
    CASE e = <<2, 1>> -> FMul(a, a)
      [] e = <<1, 2>> -> IF a = FInf(-1) THEN FInf(1) ELSE FSqrt(a)

\* np.where(x < 0, 0, x)
FWhereLt0(x) == IF FLt(x, FZero) THEN FZero ELSE x

RECURSIVE SortF(_)
SortF(s) ==
    IF s = <<>> THEN <<>>
    ELSE LET k == CHOOSE i \in DOMAIN s : \A j \in DOMAIN s : ~FLt(s[j], s[i])
         IN  <<s[k]>> \o SortF([i \in 1..(Len(s) - 1) |-> IF i < k THEN s[i] ELSE s[i + 1]])

\* np.nanpercentile(arr, q): linear interpolation between the two values around
\* position q/100 * (N - 1) of the N sorted values that are not nan; nan if N = 0
NanPercentile(arr, q) ==
    LET s == SortF(SelectSeq(arr, LAMBDA x : ~FIsNan(x)))
        N == Len(s)
        pos == FMul(FDiv(q, <<100, 1>>), <<N - 1, 1>>)
        lo == pos[1] \div pos[2]
        t == FSub(pos, <<lo, 1>>)
    IN  IF N = 0 THEN FNan
        ELSE IF lo + 1 >= N THEN s[N]
        ELSE FAdd(s[lo + 1], FMul(FSub(s[lo + 2], s[lo + 1]), t))

\* the result of an array operation written into its left operand, as band_1 /= band_2
\* would
InPlaceArray(f, v, bands) ==
    [v |-> v,
     bands |-> IF f[2][1] = "band" THEN [bands EXCEPT ![f[2][2]] = v] ELSE bands]

\* the result of an array operation is a new array: the dictionary of input arrays
\* is as it was
NewArray(f, v, bands) == [v |-> v, bands |-> bands]

\* norm = (band_1 - band_2) / (band_1 + band_2), swapped
NormDiffSwapped(band_1, band_2) ==
    [i \in DOMAIN band_1 |-> FDiv(FAdd(band_1[i], band_2[i]), FSub(band_1[i], band_2[i]))]

\* _norm_diff(band_1, band_2)
NormDiff(band_1, band_2) ==
    [i \in DOMAIN band_1 |-> FDiv(FSub(band_1[i], band_2[i]), FAdd(band_1[i], band_2[i]))]

\* one elementwise operator of numpy on arrays of the same shape
ArrayOp(op, a, b) ==
    CASE op = "add" -> [i \in DOMAIN a |-> FAdd(a[i], b[i])]
      [] op = "sub" -> [i \in DOMAIN a |-> FSub(a[i], b[i])]
      [] op = "mul" -> [i \in DOMAIN a |-> FMul(a[i], b[i])]
      [] op = "div" -> [i \in DOMAIN a |-> FDiv(a[i], b[i])]
      [] op = "pow" -> [i \in DOMAIN a |-> FPow(a[i], b[i])]
      [] op = "norm_diff" -> NormDiff(a, b)
      [] op = "nanpercentile" -> [i \in DOMAIN a |-> NanPercentile(a, b[1])]
      [] op = "sqrt" -> [i \in DOMAIN a |-> FSqrt(a[i])]
      [] op = "where_lt0_0" -> [i \in DOMAIN a |-> FWhereLt0(a[i])]
      [] op = "neg" -> [i \in DOMAIN a |-> FNeg(a[i])]

\* the pixels of the arrays of a dictionary
PixelsOf(bands) == DOMAIN bands[CHOOSE b \in DOMAIN bands : TRUE]

\* the body of an index function on the dictionary {key: val.data}: the value and
\* the dictionary after it
RECURSIVE EvalFormula(_, _)
EvalFormula(f, bands) ==
    CASE f[1] = "band" -> [v |-> bands[f[2]], bands |-> bands]
      [] f[1] = "const" ->
            [v |-> [i \in PixelsOf(bands) |-> F(f[2], f[3])], bands |-> bands]
      [] f[1] \in UnaryOps ->
            LET a == EvalFormula(f[2], bands)
            IN  NewArray(f, ArrayOp(f[1], a.v, a.v), a.bands)
      [] f[1] \in BinaryOps \cup {"norm_diff"} ->
            LET a == EvalFormula(f[2], bands)
                b == EvalFormula(f[3], a.bands)
            IN  NewArray(f, ArrayOp(f[1], a.v, b.v), b.bands)

\* out_np = function({key: val.data for key, val in bands.items()})
IdxFunction(idx, bands) == EvalFormula(Formula(idx), bands)

(***************************************************************************)
(* s3_slstr_product.py: the value _compute_e0 returns                      *)
(***************************************************************************)
SLSTR_SOLAR_FLUXES_DEFAULT ==
    [b \in {"GREEN", "RED", "NIR", "NARROW_NIR", "SWIR_CIRRUS", "SWIR_1", "SWIR_2"} |->
        CASE b = "GREEN" -> F(183739, 100)
          [] b = "RED" -> F(152594, 100)
          [] b = "NIR" -> F(95617, 100)
          [] b = "NARROW_NIR" -> F(95617, 100)
          [] b = "SWIR_CIRRUS" -> F(36590, 100)
          [] b = "SWIR_1" -> F(24833, 100)
          [] b = "SWIR_2" -> F(7833, 100)]

RECURSIVE SumF(_)
SumF(s) == IF s = <<>> THEN FZero ELSE FAdd(s[1], SumF(Tail(s)))

\* np.mean(e0): nan as soon as one value is nan
MeanAll(e0) == FDiv(SumF(e0), <<Len(e0), 1>>)

\* np.nanmean(e0): the mean of the values that are not nan, nan (0/0) if there is none
NanMean(e0) ==
    LET valid == SelectSeq(e0, LAMBDA x : ~FIsNan(x))
    IN  FDiv(SumF(valid), <<Len(valid), 1>>)

\* e0 = np.nanmean(e0); if np.isnan(e0): e0 = SLSTR_SOLAR_FLUXES_DEFAULT[band]
SolarFlux(band, e0) ==
    LET mean == NanMean(e0)
    IN  IF ~FIsNan(mean) THEN [kind |-> "ok", e0 |-> mean, from |-> "mean"]
        ELSE IF band \in DOMAIN SLSTR_SOLAR_FLUXES_DEFAULT
             THEN [kind |-> "ok", e0 |-> SLSTR_SOLAR_FLUXES_DEFAULT[band], from |-> "default"]
             ELSE [kind |-> "KeyError", e0 |-> FNan, from |-> "default"]

(***************************************************************************)
(* s3_slstr_product.py: _tie_to_img, up to the call of RectBivariateSpline *)
(*                                                                         *)
(* A grid is a sequence of rows; x_tx and y_tx hold the cartesian          *)
(* coordinates of every tie point, tie_arr the image sampled on them.      *)
(***************************************************************************)
\* s[::-1]
Reverse(s) == [i \in DOMAIN s |-> s[Len(s) + 1 - i]]

\* tx = x_tx[0, ::-1]; ty = y_tx[:, 0]; no_nan_arr = tie_arr[:, ::-1];
\* RectBivariateSpline(ty, tx, no_nan_arr)
TieToImg(x_tx, y_tx, tie_arr) ==
    [tx |-> Reverse(x_tx[1]),
     ty |-> [r \in DOMAIN y_tx |-> y_tx[r][1]],
     z |-> [r \in DOMAIN tie_arr |-> Reverse(tie_arr[r])]]

(***************************************************************************)
(* Rasters: two rows of Width pixels, numbered row by row from 1            *)
(***************************************************************************)
Width == 6
NPixels == 2 * Width
Pixels == 1..NPixels

RowOf(i) == (i - 1) \div Width
ColOf(i) == (i - 1) % Width

\* 4-connectivity: the pixels sharing an edge
Adjacent(i, j) ==
    \/ RowOf(i) = RowOf(j) /\ (ColOf(i) - ColOf(j) = 1 \/ ColOf(j) - ColOf(i) = 1)
    \/ ColOf(i) = ColOf(j) /\ (RowOf(i) - RowOf(j) = 1 \/ RowOf(j) - RowOf(i) = 1)

MinOf(S) == CHOOSE x \in S : \A y \in S : x <= y

(***************************************************************************)
(* rasterio.features.sieve(image, size, connectivity=4): every polygon (a  *)
(* connected set of pixels of one value) smaller than size takes the value *)
(* of the polygon that the chain of largest neighbours leads to, when that *)
(* chain reaches a polygon of at least size pixels; otherwise it is kept.  *)
(***************************************************************************)
RECURSIVE Flood(_, _)
Flood(S, img) ==
    LET more == {j \in Pixels \ S : \E i \in S : Adjacent(i, j) /\ img[i] = img[j]}
    IN  IF more = {} THEN S ELSE Flood(S \cup more, img)

RECURSIVE PolygonsOf(_, _)
PolygonsOf(left, img) ==
    IF left = {} THEN {}
    ELSE LET P == Flood({MinOf(left)}, img)
         IN  {P} \cup PolygonsOf(left \ P, img)

Neighbours(P, polys) ==
    {Q \in polys : Q # P /\ \E i \in P, j \in Q : Adjacent(i, j)}

\* the largest neighbour (the first in scan order among equals); {} when alone
BigNeighbour(P, polys) ==
    LET ns == Neighbours(P, polys)
    IN  IF ns = {} THEN {}
        ELSE CHOOSE Q \in ns : \A R \in ns :
                \/ Cardinality(Q) > Cardinality(R)
                \/ Cardinality(Q) = Cardinality(R) /\ MinOf(Q) <= MinOf(R)

\* follow the largest neighbours from P until a polygon of at least size pixels;
\* {} when the chain ends or cycles before
RECURSIVE MergeTarget(_, _, _, _)
MergeTarget(P, visited, polys, size) ==
    LET Q == BigNeighbour(P, polys)
    IN  IF Q = {} THEN {}
        ELSE IF Cardinality(Q) >= size THEN Q
        ELSE IF Q \in visited THEN {}
        ELSE MergeTarget(Q, visited \cup {Q}, polys, size)

\* a filter that only clears the small polygons of value 1
SieveFlaggedOnly(img, size) ==
    [i \in Pixels |->
        IF img[i] = 1 /\ Cardinality(Flood({i}, img)) < size THEN 0 ELSE img[i]]

Sieve(img, size) ==
    LET polys == PolygonsOf(Pixels, img)
        target == [P \in polys |->
                     IF Cardinality(P) >= size THEN P
                     ELSE MergeTarget(P, {P}, polys, size)]
    IN  [i \in Pixels |->
            LET P == CHOOSE Q \in polys : i \in Q
            IN  IF target[P] = {} THEN img[i] ELSE img[MinOf(target[P])]]

(***************************************************************************)
(* s3_slstr_product.py: _create_mask                                       *)
(***************************************************************************)
\* the size handed to features.sieve
SieveSize == 10

\* self._mask_true, self._mask_false
MaskTrue == 1
MaskFalse == 0

RECURSIVE Pow2(_)
Pow2(n) == IF n = 0 THEN 1 ELSE 2 * Pow2(n - 1)

\* rasters.read_bit_array(bit_array, bit_id): true where the bit is set
ReadBit(v, id) == (v \div Pow2(id)) % 2 = 1

\* the flag ids of _load_clouds
AllIds == 0..13
CirId == 8
CloudIds == AllIds \ {CirId}

\* every selected bit must be set
CondAll(bit_array, bit_ids) ==
    [i \in Pixels |-> IF \A id \in bit_ids : ReadBit(bit_array[i], id)
                      THEN MaskTrue ELSE MaskFalse]

\* reduce(lambda x, y: x | y, conds) then np.where(cond, mask_true, mask_false)
Cond(bit_array, bit_ids) ==
    [i \in Pixels |-> IF \E id \in bit_ids : ReadBit(bit_array[i], id)
                      THEN MaskTrue ELSE MaskFalse]

\* the parent's _create_mask(xda, cond, nodata): the condition, undefined (NaN)
\* where the nodata mask is set
ParentCreateMask(cond_arr, nodata) ==
    [i \in Pixels |-> IF nodata[i] = 0 THEN cond_arr[i] ELSE "nan"]

\* _create_mask(bit_array, bit_ids, nodata); bit_ids is the set of the ids
\* (a single id is wrapped into a list first)
CreateMask(bit_array, bit_ids, nodata) ==
    LET cond == Cond(bit_array, bit_ids)
        cond_arr == Sieve(cond, SieveSize)
    IN  [cond |-> cond, sieved |-> cond_arr, mask |-> ParentCreateMask(cond_arr, nodata)]

(***************************************************************************)
(* Invalid pixels: s3_slstr_product.py _manage_invalid_pixels and          *)
(* s3_product.py manage_invalid_pixels_olci / _slstr.  A band value is     *)
(* <<v>> when defined and <<>> when it is not-a-number.                    *)
(***************************************************************************)
NaN == <<>>

IsNan(x) == x = NaN

\* a | b on the mask values 0 and 1
BitOr(a, b) == IF a = 1 \/ b = 1 THEN 1 ELSE 0

\* the exception mask alone, the no-data mask left out
SlstrInvalidMaskExceptionOnly(band_data, qual_arr) ==
    [i \in DOMAIN band_data |-> IF qual_arr[i] > 2 THEN MaskTrue ELSE MaskFalse]

\* _manage_invalid_pixels: mask = no_data | exception
SlstrInvalidMask(band_data, qual_arr) ==
    LET exception == [i \in DOMAIN band_data |->
                        IF qual_arr[i] > 2 THEN MaskTrue ELSE MaskFalse]
        no_data == [i \in DOMAIN band_data |->
                        IF IsNan(band_data[i]) THEN MaskTrue ELSE MaskFalse]
    IN  [i \in DOMAIN band_data |-> BitOr(no_data[i], exception[i])]

\* _set_nodata_mask(band_arr, mask): the values where the mask is set are undefined
SetNodataMask(band_data, mask) ==
    [i \in DOMAIN band_data |-> IF mask[i] = MaskFalse THEN band_data[i] ELSE NaN]

\* _manage_invalid_pixels, from the flags read to the band returned
ManageInvalidPixelsSlstr(band_data, qual_arr) ==
    LET mask == SlstrInvalidMask(band_data, qual_arr)
    IN  [kind |-> "masked", mask |-> mask, data |-> SetNodataMask(band_data, mask)]

\* self.snap_no_data
SnapNoData == -1

\* manage_invalid_pixels_olci: the bit of the saturation flag of each band
BandBitId ==
    [b \in {"CA", "BLUE", "GREEN", "RED", "VRE_1", "VRE_2", "VRE_3", "NIR", "NNIR",
            "WV", "FNIR"} |->
        CASE b = "CA" -> 18 [] b = "BLUE" -> 17 [] b = "GREEN" -> 14
          [] b = "RED" -> 12 [] b = "VRE_1" -> 10 [] b = "VRE_2" -> 9
          [] b = "VRE_3" -> 5 [] b = "NIR" -> 4 [] b = "NNIR" -> 4
          [] b = "WV" -> 1 [] b = "FNIR" -> 0]

\* create_band_masked_array(band_arr, mask, meta): the masked array of the band
CreateBandMaskedArray(band_arr, mask) ==
    [kind |-> "masked", mask |-> mask, data |-> band_arr]

\* manage_invalid_pixels_olci; has_file: quality_flags.tif is in the output folder
ManageInvalidPixelsOlci(band_arr, band, has_file, qual_arr) ==
    IF ~has_file
    THEN [kind |-> "as_is", mask |-> <<>>, data |-> band_arr]
    ELSE LET invalid == [i \in DOMAIN band_arr |-> IF ReadBit(qual_arr[i], 24) THEN 1 ELSE 0]
             sat == [i \in DOMAIN band_arr |->
                        IF ReadBit(qual_arr[i], BandBitId[band]) THEN 1 ELSE 0]
             no_data == [i \in DOMAIN band_arr |-> IF band_arr[i] = SnapNoData THEN 1 ELSE 0]
         IN  CreateBandMaskedArray(band_arr,
                [i \in DOMAIN band_arr |-> BitOr(BitOr(no_data[i], invalid[i]), sat[i])])

\* manage_invalid_pixels_slstr; has_file: the exception raster is in the output folder
ManageInvalidPixelsSlstrSnap(band_arr, has_file, qual_arr) ==
    IF ~has_file
    THEN [kind |-> "as_is", mask |-> <<>>, data |-> band_arr]
    ELSE LET exception == [i \in DOMAIN band_arr |-> IF qual_arr[i] > 2 THEN 1 ELSE 0]
             no_data == [i \in DOMAIN band_arr |-> IF band_arr[i] = SnapNoData THEN 1 ELSE 0]
         IN  CreateBandMaskedArray(band_arr,
                [i \in DOMAIN band_arr |-> BitOr(no_data[i], exception[i])])

\* manage_invalid_pixels: the instrument decides
ManageInvalidPixels(instrument, band_arr, band, has_file, qual_arr) ==
    IF instrument = "OLCI"
    THEN ManageInvalidPixelsOlci(band_arr, band, has_file, qual_arr)
    ELSE ManageInvalidPixelsSlstrSnap(band_arr, has_file, qual_arr)

(***************************************************************************)
(* s3_slstr_product.py: _set_preprocess_members                            *)
(***************************************************************************)
\* the members derived from the suffix; "{}" stands for the channel to fill in
SetPreprocessMembers(sfx) ==
    [radiance_file |-> <<"{}", "radiance", sfx>>,
     radiance_subds |-> <<"{}", "radiance", sfx>>,
     geo_file |-> <<"geodetic", sfx>>,
     lat_nc_name |-> <<"latitude", sfx>>,
     lon_nc_name |-> <<"longitude", sfx>>,
     alt_nc_name |-> <<"elevation", sfx>>,
     geom_file |-> <<"geometry", "t", sfx[2]>>,
     saa_name |-> <<"solar_azimuth", "t", sfx[2]>>,
     sza_name |-> <<"solar_zenith", "t", sfx[2]>>,
     misc_file |-> <<"{}", "quality", sfx>>,
     solar_flux_name |-> <<"{}", "solar_irradiance", sfx>>,
     flags_file |-> <<"flags", sfx>>,
     cloud_name |-> <<"cloud", sfx>>,
     exception_name |-> <<"{}", "exception", sfx>>]

(***************************************************************************)
(* The band pipeline of one product: arrays, files and call frames         *)
(***************************************************************************)
MaxCalls == 3

\* the requests the callers make
Bands == {"SWIR_1", "GREEN"}
\* a brightness-temperature band: _set_product_type maps no channel to it
ThermalBands == {"TIR_1"}
Resolutions == {500, 1000}
\* "1.11": a bare float handed as SLSTR_RAD_ADJUST, no member of SlstrRadAdjust
RadAdjustArgs == {"NONE", "S3_PN_SLSTR_L1_08", "1.11"}
\* "tx" is the tie-point grid, no member of SLSTR_SUFFIX
SuffixArgs == {<<"a", "n">>, <<"a", "o">>, <<"b", "n">>, <<"t", "x">>}
\* the suffix argument of _geocode; <<>> is None
GeocodeSuffixArgs == {<<>>, <<"a", "n">>, <<"b", "n">>}
\* the product's geodetic_bn.nc cannot be read
UnreadableGeo == {<<"b", "n">>}

\* an array: the file and variable it was read from, its value (one pixel), the
\* radiance adjustment applied (coefficient and view), the radiance-to-reflectance
\* coefficient applied, the GCPs and resolution it was reprojected with, the mask
\* set on it, and the stages it went through
NoArr ==
    [src |-> <<>>, px |-> 0, coeff |-> 0, view |-> "", r2r |-> <<>>,
     gcps |-> <<>>, res |-> 0, mask |-> <<>>, hist |-> <<>>]

\* str.replace("{}", band_name) on a member
Fill(template, band_name) == <<band_name>> \o Tail(template)

\* _read_nc(band, subdataset): the variable of the band's radiance file, the
\* radiance by default, or the variable of the file named; a radiance reads 10.0,
\* a flag word reads 4
ReadNc(band, subdataset, mem) ==
    IF IsBandKey(band)
    THEN LET name == SlstrBandNames[band]
             subds == IF subdataset = <<>> THEN Fill(mem.radiance_subds, name)
                      ELSE subdataset
         IN  [NoArr EXCEPT !.src = <<Fill(mem.radiance_file, name), subds>>,
                           !.px = IF subds[2] = "radiance" THEN 100000 ELSE 40000]
    ELSE [NoArr EXCEPT !.src = <<band, subdataset>>, !.px = 40000]

\* _get_preprocessed_band_path(band, resolution): <name>_<band>_<resolution>.tif
GetPreprocessedBandPath(band, resolution) == <<band, resolution>>

\* a file name given in place of a band, as the string the code handles:
\* f"flags_{suffix}.nc"
FileName(file) ==
    CASE file[2] = <<"a", "n">> -> "flags_an.nc" [] file[2] = <<"a", "o">> -> "flags_ao.nc"
      [] file[2] = <<"b", "n">> -> "flags_bn.nc" [] file[2] = <<"b", "o">> -> "flags_bo.nc"
      [] file[2] = <<"i", "n">> -> "flags_in.nc" [] file[2] = <<"i", "o">> -> "flags_io.nc"
      [] file[2] = <<"f", "n">> -> "flags_fn.nc" [] file[2] = <<"f", "o">> -> "flags_fo.nc"

\* the flags file of each grid
FlagsFiles == {FileName(SetPreprocessMembers(sfx).flags_file) : sfx \in SLSTR_SUFFIX}

\* band.split(".")[0][-2:] of a file name
SuffixOfFile(band) == CHOOSE sfx \in SLSTR_SUFFIX : FileName(<<"flags", sfx>>) = band

PPKeys == {GetPreprocessedBandPath(b, r) : b \in Bands \cup FlagsFiles, r \in Resolutions}

\* utils.create_gcps(lon, lat, alt) of the grid of suffix sfx
CreateGcps(sfx) == <<<<"longitude", sfx>>, <<"latitude", sfx>>, <<"elevation", sfx>>>>

\* _compute_e0: str.replace("{}", self.band_names[band]) is a TypeError when the band
\* name is None
ComputeE0Raises(band) == SlstrBandNames[band] = None

\* _compute_e0: the solar flux read through the members _misc_file, _solar_flux_name
ComputeE0(band, mem) ==
    <<Fill(mem.misc_file, SlstrBandNames[band]), Fill(mem.solar_flux_name, SlstrBandNames[band])>>

\* the statement after each stage of _preprocess, in the order of its code
PreprocessNextGeocodeFirst(pc, to_reflectance) ==
    CASE pc = "pp_read" -> "pp_geocode"
      [] pc = "pp_geocode" -> "pp_adjust"
      [] pc = "pp_adjust" -> IF to_reflectance THEN "pp_convert" ELSE "pp_write"
      [] pc = "pp_convert" -> "pp_write"

PreprocessNext(pc, to_reflectance) ==
    CASE pc = "pp_read" -> "pp_adjust"
      [] pc = "pp_adjust" -> IF to_reflectance THEN "pp_convert" ELSE "pp_geocode"
      [] pc = "pp_convert" -> "pp_geocode"
      [] pc = "pp_geocode" -> "pp_write"

\* instrumentation: how often the GCPs of a suffix, a preprocessed file and a
\* coefficient were computed, how often a grid was reprojected to, and the outputs
\* the _geocode calls returned per (suffix, resolution)
NoStats ==
    [gcps_built |-> [s \in SLSTR_SUFFIX |-> 0],
     pp_built |-> [k \in PPKeys |-> 0],
     r2r_built |-> [b \in Bands |-> 0],
     geocoded |-> [s \in SLSTR_SUFFIX |-> 0],
     geo_out |-> [k \in SLSTR_SUFFIX \X Resolutions |-> {}]]

Callers == {1, 2}

\* no COSMO-SkyMed product is open
NoCsg == [kind |-> "none"]

Idle == [pc |-> "idle"]

NoResult == [kind |-> "none"]

\* the product after __init__: suffix "an", no file in the band folder, no GCPs
InitProduct ==
    /\ suffix = <<"a", "n">>
    /\ members = SetPreprocessMembers(<<"a", "n">>)
    /\ files = [pp |-> <<>>, rad2refl |-> <<>>, r2r |-> <<>>, sza |-> <<>>]
    /\ gcps = <<>>
    /\ frame = [c \in Callers |-> Idle]
    /\ done = [c \in Callers |-> NoResult]
    /\ stats = NoStats
    /\ ncalls = 0
    /\ csg = NoCsg

Init ==
    /\ call = [op |-> "none"]
    /\ InitProduct

product == <<suffix, members, files, gcps, frame, done, stats, ncalls, csg>>

\* the call of caller c ends with an exception
Raise(c, kind) ==
    /\ done' = [done EXCEPT ![c] =
                    [kind |-> kind, op |-> frame[c].op, req |-> frame[c].req,
                     pp |-> NoArr, out |-> NoArr]]
    /\ frame' = [frame EXCEPT ![c] = Idle]

\* the call of caller c returns out; pp is the preprocessed array it went through
Return(c, pp, out) ==
    /\ done' = [done EXCEPT ![c] =
                    [kind |-> "ok", op |-> frame[c].op, req |-> frame[c].req,
                     pp |-> pp, out |-> out]]
    /\ frame' = [frame EXCEPT ![c] = Idle]

At(c, pc) == frame[c].pc = pc

Bump(f, k) == [f EXCEPT ![k] = @ + 1]

Put(f, k, v) == [x \in DOMAIN f \cup {k} |-> IF x = k THEN v ELSE f[x]]

\* loading a band: _preprocess(band, resolution, **kwargs), reading the file it
\* returns, then _manage_invalid_pixels on the array read
CallLoad(c, bands, resolutions, rad_adjusts) ==
    /\ At(c, "idle")
    /\ ncalls < MaxCalls
    /\ \E band \in bands, resolution \in resolutions, rad_adjust \in rad_adjusts :
        frame' = [frame EXCEPT ![c] =
            [pc |-> "pp_check", op |-> "load",
             req |-> [band |-> band, res |-> resolution, rad_adjust |-> rad_adjust, sfx |-> <<>>],
             band |-> band, res |-> resolution, rad_adjust |-> rad_adjust,
             to_reflectance |-> TRUE, subdataset |-> <<>>, ret |-> "lb_read",
             path |-> <<>>, arr |-> NoArr, outer |-> NoArr, sfx |-> <<>>, sza |-> <<>>]]
    /\ ncalls' = ncalls + 1
    /\ UNCHANGED <<csg, call, suffix, members, files, gcps, done, stats>>

\* _geocode(band_arr, resolution, suffix) on a raw radiance array; suffix may be None
CallGeocode(c, resolutions, suffixes) ==
    /\ At(c, "idle")
    /\ ncalls < MaxCalls
    /\ \E resolution \in resolutions, sfx \in suffixes :
        frame' = [frame EXCEPT ![c] =
            [pc |-> "geo_begin", op |-> "geocode",
             req |-> [band |-> "SWIR_1", res |-> resolution,
                      rad_adjust |-> DefaultRadAdjust, sfx |-> sfx],
             band |-> "SWIR_1", res |-> resolution, rad_adjust |-> DefaultRadAdjust,
             to_reflectance |-> FALSE, subdataset |-> <<>>, ret |-> "return",
             path |-> <<>>, arr |-> ReadNc("SWIR_1", <<>>, SetPreprocessMembers(<<"a", "n">>)),
             outer |-> NoArr, sfx |-> sfx, sza |-> <<>>]]
    /\ ncalls' = ncalls + 1
    /\ UNCHANGED <<csg, call, suffix, members, files, gcps, done, stats>>

\* change_suffix without its assertion
ChangeSuffixUnchecked(c) ==
    /\ At(c, "idle")
    /\ ncalls < MaxCalls
    /\ ncalls' = ncalls + 1
    /\ \E new_suffix \in SuffixArgs :
        /\ suffix' = new_suffix
        /\ members' = SetPreprocessMembers(new_suffix)
        /\ done' = [done EXCEPT ![c] =
               [kind |-> "ok", op |-> "change_suffix",
                req |-> [band |-> "", res |-> 0, rad_adjust |-> "", sfx |-> new_suffix],
                pp |-> NoArr, out |-> NoArr]]
    /\ UNCHANGED <<csg, call, files, gcps, frame, stats>>

\* change_suffix(new_suffix)
ChangeSuffix(c) ==
    /\ At(c, "idle")
    /\ ncalls < MaxCalls
    /\ ncalls' = ncalls + 1
    /\ \E new_suffix \in SuffixArgs :
        IF new_suffix \in SLSTR_SUFFIX
        THEN /\ suffix' = new_suffix
             /\ members' = SetPreprocessMembers(new_suffix)
             /\ done' = [done EXCEPT ![c] =
                    [kind |-> "ok", op |-> "change_suffix",
                     req |-> [band |-> "", res |-> 0, rad_adjust |-> "", sfx |-> new_suffix],
                     pp |-> NoArr, out |-> NoArr]]
        ELSE /\ done' = [done EXCEPT ![c] =
                    [kind |-> "AssertionError", op |-> "change_suffix",
                     req |-> [band |-> "", res |-> 0, rad_adjust |-> "", sfx |-> new_suffix],
                     pp |-> NoArr, out |-> NoArr]]
             /\ UNCHANGED <<suffix, members>>
    /\ UNCHANGED <<csg, call, files, gcps, frame, stats>>

\* _preprocess without the look-up: the band is preprocessed at every call
PreprocessCheckNoCache(c) ==
    /\ At(c, "pp_check")
    /\ LET fr == frame[c]
           path == GetPreprocessedBandPath(fr.band, fr.res)
       IN  frame' = [frame EXCEPT ![c] = [fr EXCEPT !.path = path, !.pc = "pp_read"]]
    /\ UNCHANGED <<csg, call, suffix, members, files, gcps, done, stats, ncalls>>

\* _preprocess: the look-up of the preprocessed file
PreprocessCheck(c) ==
    /\ At(c, "pp_check")
    /\ LET fr == frame[c]
           path == GetPreprocessedBandPath(fr.band, fr.res)
       IN  frame' = [frame EXCEPT ![c] =
                [fr EXCEPT !.path = path,
                           !.pc = IF path \in DOMAIN files.pp THEN fr.ret ELSE "pp_read"]]
    /\ UNCHANGED <<csg, call, suffix, members, files, gcps, done, stats, ncalls>>

\* _preprocess: band_arr = self._read_nc(band, subdataset)
PreprocessRead(c) ==
    /\ At(c, "pp_read")
    /\ LET fr == frame[c]
       IN  frame' = [frame EXCEPT ![c] =
                [fr EXCEPT !.arr = ReadNc(fr.band, fr.subdataset, members),
                           !.pc = PreprocessNext("pp_read", fr.to_reflectance)]]
    /\ UNCHANGED <<csg, call, suffix, members, files, gcps, done, stats, ncalls>>

\* _preprocess: the assertion on the adjustment, then _radiance_adjustment
PreprocessAdjust(c) ==
    /\ At(c, "pp_adjust")
    /\ LET fr == frame[c]
       IN  IF fr.rad_adjust \notin SlstrRadAdjustNames
           THEN Raise(c, "AssertionError")
           ELSE /\ frame' = [frame EXCEPT ![c] =
                    [fr EXCEPT !.arr = [fr.arr EXCEPT
                                    !.px = RadianceAdjustment(<<fr.arr.px>>, fr.band,
                                                              fr.rad_adjust, suffix)[1],
                                    !.coeff = IF IsBandKey(fr.band)
                                              THEN RadCoeff(fr.band, fr.rad_adjust, suffix)
                                              ELSE 0,
                                    !.view = suffix[2],
                                    !.hist = Append(@, "adjust")],
                               !.pc = PreprocessNext("pp_adjust", fr.to_reflectance)]]
                /\ UNCHANGED done
    /\ UNCHANGED <<csg, call, suffix, members, files, gcps, stats, ncalls>>

\* _rad_2_refl: the look-up of rad_2_refl_<band>.npy; the coefficient is loaded and
\* applied when the file is there
Rad2ReflCheck(c) ==
    /\ At(c, "pp_convert")
    /\ LET fr == frame[c]
       IN  frame' = [frame EXCEPT ![c] =
                IF fr.band \in DOMAIN files.r2r
                THEN [fr EXCEPT !.arr = [fr.arr EXCEPT !.r2r = files.r2r[fr.band],
                                                       !.hist = Append(@, "convert")],
                                !.pc = "pp_debug_write"]
                ELSE [fr EXCEPT !.pc = "sza_check"]]
    /\ UNCHANGED <<csg, call, suffix, members, files, gcps, done, stats, ncalls>>

\* _compute_sza_img_grid: the look-up of sza_<suffix>.npy, loaded when it is there
ComputeSzaCheck(c) ==
    /\ At(c, "sza_check")
    /\ LET fr == frame[c]
       IN  frame' = [frame EXCEPT ![c] =
                IF suffix \in DOMAIN files.sza
                THEN [fr EXCEPT !.sza = files.sza[suffix], !.pc = "r2r_save"]
                ELSE [fr EXCEPT !.pc = "sza_save"]]
    /\ UNCHANGED <<csg, call, suffix, members, files, gcps, done, stats, ncalls>>

\* _compute_sza_img_grid: the zenith angles read, resampled to the image grid, saved
ComputeSzaSave(c) ==
    /\ At(c, "sza_save")
    /\ LET fr == frame[c]
           sza_img == <<members.geom_file, members.sza_name, suffix>>
       IN  /\ files' = [files EXCEPT !.sza = Put(@, suffix, sza_img)]
           /\ frame' = [frame EXCEPT ![c] = [fr EXCEPT !.sza = sza_img, !.pc = "r2r_save"]]
    /\ UNCHANGED <<csg, call, suffix, members, gcps, done, stats, ncalls>>

\* _rad_2_refl: the coefficient computed from the solar flux and the zenith angles,
\* saved, and applied
Rad2ReflSave(c) ==
    /\ At(c, "r2r_save")
    /\ LET fr == frame[c]
           rad_2_refl_coeff == <<ComputeE0(fr.band, members), fr.sza>>
       IN  IF ComputeE0Raises(fr.band)
           THEN /\ Raise(c, "TypeError")
                /\ UNCHANGED <<files, stats>>
           ELSE /\ files' = [files EXCEPT !.r2r = Put(@, fr.band, rad_2_refl_coeff)]
                /\ stats' = [stats EXCEPT !.r2r_built = Bump(@, fr.band)]
                /\ frame' = [frame EXCEPT ![c] =
                     [fr EXCEPT !.arr = [fr.arr EXCEPT !.r2r = rad_2_refl_coeff,
                                                       !.hist = Append(@, "convert")],
                                !.pc = "pp_debug_write"]]
                /\ UNCHANGED done
    /\ UNCHANGED <<csg, call, suffix, members, gcps, ncalls>>

\* _preprocess: the reflectance written to <name>_<band>_rad2refl.tif
WriteRad2Refl(c) ==
    /\ At(c, "pp_debug_write")
    /\ LET fr == frame[c]
       IN  /\ files' = [files EXCEPT !.rad2refl = Put(@, fr.band, fr.arr)]
           /\ frame' = [frame EXCEPT ![c] =
                [fr EXCEPT !.pc = PreprocessNext("pp_convert", fr.to_reflectance)]]
    /\ UNCHANGED <<csg, call, suffix, members, gcps, done, stats, ncalls>>

\* _preprocess: the suffix of the grid, from the subdataset or from self._suffix
PreprocessGeocode(c) ==
    /\ At(c, "pp_geocode")
    /\ LET fr == frame[c]
       IN  frame' = [frame EXCEPT ![c] =
                [fr EXCEPT !.sfx = IF ~IsBandKey(fr.band) THEN SuffixOfFile(fr.band)
                                   ELSE IF fr.subdataset # <<>> THEN fr.subdataset[3]
                                   ELSE suffix,
                           !.pc = "geo_begin"]]
    /\ UNCHANGED <<csg, call, suffix, members, files, gcps, done, stats, ncalls>>

\* _geocode: if not suffix: suffix = self._suffix
GeocodeBegin(c) ==
    /\ At(c, "geo_begin")
    /\ LET fr == frame[c]
       IN  frame' = [frame EXCEPT ![c] =
                [fr EXCEPT !.sfx = IF fr.sfx = <<>> THEN suffix ELSE fr.sfx,
                           !.pc = "gcps_check"]]
    /\ UNCHANGED <<csg, call, suffix, members, files, gcps, done, stats, ncalls>>

\* _create_gcps: the condition; not self._gcps[suffix] is evaluated only for a key
\* that is absent, and the look-up inserts the key with an empty list
CreateGcpsCheck(c) ==
    /\ At(c, "gcps_check")
    /\ LET fr == frame[c]
       IN  IF fr.sfx \in DOMAIN gcps
           THEN /\ frame' = [frame EXCEPT ![c] = [fr EXCEPT !.pc = "reproject"]]
                /\ UNCHANGED gcps
           ELSE /\ gcps' = Put(gcps, fr.sfx, <<>>)
                /\ frame' = [frame EXCEPT ![c] = [fr EXCEPT !.pc = "gcps_read"]]
    /\ UNCHANGED <<csg, call, suffix, members, files, done, stats, ncalls>>

\* _create_gcps: the three grids read and the GCPs assigned; a grid that cannot be
\* read raises
CreateGcpsBuild(c) ==
    /\ At(c, "gcps_read")
    /\ LET fr == frame[c]
       IN  IF fr.sfx \in UnreadableGeo
           THEN /\ Raise(c, "ReadError")
                /\ UNCHANGED <<gcps, stats>>
           ELSE /\ gcps' = Put(gcps, fr.sfx, CreateGcps(fr.sfx))
                /\ stats' = [stats EXCEPT !.gcps_built = Bump(@, fr.sfx)]
                /\ frame' = [frame EXCEPT ![c] = [fr EXCEPT !.pc = "reproject"]]
                /\ UNCHANGED done
    /\ UNCHANGED <<csg, call, suffix, members, files, ncalls>>

\* _geocode: the reprojection with self._gcps[suffix]
Reproject(c) ==
    /\ At(c, "reproject")
    /\ LET fr == frame[c]
           out == [fr.arr EXCEPT !.gcps = gcps[fr.sfx], !.res = fr.res,
                                 !.hist = Append(@, "geocode")]
       IN  /\ stats' = [stats EXCEPT
                    !.geocoded = Bump(@, fr.sfx),
                    !.geo_out = IF fr.op = "geocode"
                                THEN [@ EXCEPT ![<<fr.sfx, fr.res>>] = @ \cup {out}]
                                ELSE @]
           /\ IF fr.op = "geocode"
              THEN Return(c, NoArr, out)
              ELSE /\ frame' = [frame EXCEPT ![c] =
                        [fr EXCEPT !.arr = out,
                                   !.pc = PreprocessNext("pp_geocode", fr.to_reflectance)]]
                   /\ UNCHANGED done
    /\ UNCHANGED <<csg, call, suffix, members, files, gcps, ncalls>>

\* _preprocess: utils.write(pp_arr, path); return path
PreprocessWrite(c) ==
    /\ At(c, "pp_write")
    /\ LET fr == frame[c]
       IN  /\ files' = [files EXCEPT !.pp = Put(@, fr.path, fr.arr)]
           /\ stats' = [stats EXCEPT !.pp_built = Bump(@, fr.path)]
           /\ frame' = [frame EXCEPT ![c] = [fr EXCEPT !.pc = fr.ret]]
    /\ UNCHANGED <<csg, call, suffix, members, gcps, done, ncalls>>

\* the band read from the path _preprocess returned
LoadRead(c) ==
    /\ At(c, "lb_read")
    /\ LET fr == frame[c]
       IN  frame' = [frame EXCEPT ![c] =
                [fr EXCEPT !.arr = files.pp[fr.path], !.pc = "mip_begin"]]
    /\ UNCHANGED <<csg, call, suffix, members, files, gcps, done, stats, ncalls>>

\* _manage_invalid_pixels: self._preprocess(band, subdataset=<exception>,
\* resolution=band_arr.rio.resolution(), to_reflectance=False)
ManageInvalidBegin(c) ==
    /\ At(c, "mip_begin")
    /\ LET fr == frame[c]
       IN  frame' = [frame EXCEPT ![c] =
                [fr EXCEPT !.outer = fr.arr,
                           !.subdataset = Fill(members.exception_name, SlstrBandNames[fr.band]),
                           !.res = fr.arr.res,
                           !.rad_adjust = DefaultRadAdjust,
                           !.to_reflectance = FALSE,
                           !.ret = "mip_mask",
                           !.pc = "pp_check"]]
    /\ UNCHANGED <<csg, call, suffix, members, files, gcps, done, stats, ncalls>>

\* _manage_invalid_pixels: the flags read from the path, the exception and no-data
\* masks combined and set on the band
ManageInvalidMask(c) ==
    /\ At(c, "mip_mask")
    /\ LET fr == frame[c]
           qual_arr == files.pp[fr.path]
           mask == SlstrInvalidMask(<<<<fr.outer.px>>>>, <<qual_arr.px>>)
           out == [fr.outer EXCEPT !.mask = mask, !.hist = Append(@, "mask")]
       IN  Return(c, fr.outer, out)
    /\ UNCHANGED <<csg, call, suffix, members, files, gcps, stats, ncalls>>

\* _preprocess(band, resolution, to_reflectance=False, subdataset, **kwargs) called
\* for the radiance of a band, for the exception flags of a band, or for the cloud
\* flags of the flags file
CallPreprocess(c) ==
    /\ At(c, "idle")
    /\ ncalls < MaxCalls
    /\ \E band \in Bands \cup {FileName(members.flags_file)}, of_band \in BOOLEAN,
          resolution \in Resolutions, rad_adjust \in {"NONE", DefaultRadAdjust} :
        LET subdataset == IF ~IsBandKey(band) THEN members.cloud_name
                          ELSE IF of_band THEN <<>>
                          ELSE Fill(members.exception_name, SlstrBandNames[band])
        IN  /\ IsBandKey(band) \/ of_band
            /\ frame' = [frame EXCEPT ![c] =
                    [pc |-> "pp_check", op |-> "preprocess",
                     req |-> [band |-> band, res |-> resolution,
                              rad_adjust |-> rad_adjust, sfx |-> subdataset],
                     band |-> band, res |-> resolution, rad_adjust |-> rad_adjust,
                     to_reflectance |-> FALSE, subdataset |-> subdataset,
                     ret |-> "pp_return", path |-> <<>>, arr |-> NoArr, outer |-> NoArr,
                     sfx |-> <<>>, sza |-> <<>>]]
    /\ ncalls' = ncalls + 1
    /\ UNCHANGED <<csg, call, suffix, members, files, gcps, done, stats>>

\* _preprocess: return path; the caller finds the file written under the path
PreprocessReturn(c) ==
    /\ At(c, "pp_return")
    /\ Return(c, files.pp[frame[c].path], files.pp[frame[c].path])
    /\ UNCHANGED <<csg, call, suffix, members, files, gcps, stats, ncalls>>

\* the statements of a call in progress
Run(c) ==
    \/ PreprocessCheck(c)
    \/ PreprocessRead(c)
    \/ PreprocessAdjust(c)
    \/ Rad2ReflCheck(c)
    \/ ComputeSzaCheck(c)
    \/ ComputeSzaSave(c)
    \/ Rad2ReflSave(c)
    \/ WriteRad2Refl(c)
    \/ PreprocessGeocode(c)
    \/ GeocodeBegin(c)
    \/ CreateGcpsCheck(c)
    \/ CreateGcpsBuild(c)
    \/ Reproject(c)
    \/ PreprocessWrite(c)
    \/ LoadRead(c)
    \/ ManageInvalidBegin(c)
    \/ ManageInvalidMask(c)

\* one caller: every call runs to its end before the next one starts
Next ==
    \/ CallLoad(1, Bands, Resolutions, RadAdjustArgs)
    \/ CallLoad(1, ThermalBands, {1000}, {"NONE", DefaultRadAdjust})
    \/ CallGeocode(1, Resolutions, GeocodeSuffixArgs)
    \/ ChangeSuffix(1)
    \/ Run(1)

Spec == Init /\ [][Next]_vars

\* two callers (threads) of one product that request the same band at the same
\* resolution and geocode to the same grid; the code takes no lock, a thread
\* switch may fall between any two statements
NextConcurrent ==
    \E c \in Callers :
        \/ CallLoad(c, {"SWIR_1"}, {500}, {DefaultRadAdjust})
        \/ CallGeocode(c, {500}, {<<"a", "n">>})
        \/ Run(c)

SpecConcurrent == Init /\ [][NextConcurrent]_vars

\* direct calls of _preprocess, as _manage_invalid_pixels and _load_clouds make them
NextPreprocess ==
    \/ CallPreprocess(1)
    \/ PreprocessCheck(1)
    \/ PreprocessRead(1)
    \/ PreprocessAdjust(1)
    \/ PreprocessGeocode(1)
    \/ GeocodeBegin(1)
    \/ CreateGcpsCheck(1)
    \/ CreateGcpsBuild(1)
    \/ Reproject(1)
    \/ PreprocessWrite(1)
    \/ PreprocessReturn(1)

SpecPreprocess == Init /\ [][NextPreprocess]_vars

(***************************************************************************)
(* Calls of the side-effect-free functions, on inputs from bounded sets:   *)
(* one call per behaviour, the variable call keeps its inputs and result   *)
(***************************************************************************)
NoCall == call.op = "none"

\* raw pixel values: 0.0, 0.25, 10.0
RawValues == {0, 2500, 100000}
RawArrays == {<<a, b>> : a \in RawValues, b \in RawValues}

\* _radiance_adjustment(band_arr, band, rad_adjust) on a product whose suffix is sfx;
\* band is an optical band or a file name
FnRadianceAdjustment ==
    /\ NoCall
    /\ \E px \in RawArrays, band \in OpticalBandNames \cup {<<"flags", <<"a", "n">>>>},
       ra \in SlstrRadAdjustNames, sfx \in SLSTR_SUFFIX :
        /\ call' = [op |-> "radiance_adjustment", px |-> px, band |-> band,
                    rad_adjust |-> ra, suffix |-> sfx,
                    out |-> RadianceAdjustment(px, band, ra, sfx)]
        /\ UNCHANGED product

\* get_snap_band_name(band) on a product of type ptype
FnGetSnapBandName ==
    /\ NoCall
    /\ \E ptype \in S3ProductTypes, band \in S3BandNameSet :
        /\ call' = [op |-> "get_snap_band_name", ptype |-> ptype, band |-> band,
                    out |-> GetSnapBandName(ptype, band)]
        /\ UNCHANGED product

\* the solar irradiance rasters of the quality file: values around 1837 and holes
IrradianceRasters ==
    LET vals == {FNan, F(1837, 1), F(3675, 2)}
    IN  {<<a>> : a \in vals} \cup {<<a, b>> : a \in vals, b \in vals}

\* _compute_e0(band) for a band of the SLSTR mapping, on the raster e0 it reads
FnComputeE0 ==
    /\ NoCall
    /\ \E band \in DOMAIN SlstrMap, e0 \in IrradianceRasters :
        /\ call' = [op |-> "compute_e0", band |-> band, e0 |-> e0,
                    out |-> SolarFlux(band, e0)]
        /\ UNCHANGED product

NextRadio == FnRadianceAdjustment \/ FnGetSnapBandName \/ FnComputeE0

SpecRadio == Init /\ [][NextRadio]_vars

\* a fixed order of the optical bands, to build dictionaries from sets of keys
BandOrder ==
    <<"CA", "BLUE", "GREEN", "YELLOW", "RED", "VRE_1", "VRE_2", "VRE_3", "NIR",
      "NARROW_NIR", "WV", "SWIR_CIRRUS", "SWIR_1", "SWIR_2", "TIR_1", "TIR_2">>

Rotate(sq, r) == [i \in DOMAIN sq |-> sq[((i - 1 + r) % Len(sq)) + 1]]

\* a band no index reads
ExtraBand == "TIR_1"

\* the dictionaries an index is evaluated on: any subset of the bands it reads and
\* of the extra band, inserted in any rotation of the fixed order
KeySeqs(idx) ==
    LET cands == Range(SourceBandRefs(idx)) \cup {ExtraBand}
    IN  {Rotate(SelectSeq(BandOrder, LAMBDA b : b \in S), r) :
            S \in SUBSET cands, r \in 0..2}

\* metadata of the input arrays
Metas ==
    {[res |-> 10, crs |-> "EPSG:32631", nodata |-> -9999, attrs |-> "S2", name |-> "first"],
     [res |-> 500, crs |-> "EPSG:4326", nodata |-> 65535, attrs |-> "S3", name |-> "other"]}

\* index(bands): the first array of the dictionary carries m1, the others m2
FnEvaluate ==
    /\ NoCall
    /\ \E idx \in DOMAIN NEEDED_BANDS, m1 \in Metas, m2 \in Metas :
      \E keys \in KeySeqs(idx) :
        LET arrs == [i \in DOMAIN keys |-> IF i = 1 THEN m1 ELSE m2]
        IN  /\ call' = [op |-> "evaluate", idx |-> idx, keys |-> keys, arrs |-> arrs,
                        out |-> IdxFctWrapper(idx, keys, arrs)]
            /\ UNCHANGED product

\* NEEDED_BANDS[index]
FnNeededBands ==
    /\ NoCall
    /\ \E idx \in DOMAIN NEEDED_BANDS :
        /\ call' = [op |-> "needed_bands", idx |-> idx, out |-> NEEDED_BANDS[idx]]
        /\ UNCHANGED product

\* get_all_index_names(), and the keys of NEEDED_BANDS
FnAllIndexNames ==
    /\ NoCall
    /\ call' = [op |-> "get_all_index_names", out |-> IndexNames,
                needed |-> DOMAIN NEEDED_BANDS]
    /\ UNCHANGED product

NextIndex == FnEvaluate \/ FnNeededBands \/ FnAllIndexNames

SpecIndex == Init /\ [][NextIndex]_vars

\* the pixel arrays of the input bands
NumArrays ==
    {<<F(1, 5), F(2, 5)>>, <<F(3, 5), F(4, 5)>>, <<FZero, F(1, 5)>>, <<FNan, F(-1, 5)>>}

\* index(bands) twice on the same dictionary holding every band the index reads
FnCompute ==
    /\ NoCall
    /\ \E idx \in DOMAIN NEEDED_BANDS :
      \E bands \in [Range(GetNeededBands(idx)) -> NumArrays] :
        LET first == IdxFunction(idx, bands)
            second == IdxFunction(idx, first.bands)
        IN  /\ call' = [op |-> "compute", idx |-> idx, bands |-> bands,
                        out |-> first.v, bands_after |-> first.bands,
                        out_again |-> second.v]
            /\ UNCHANGED product

NextValues == FnCompute

SpecValues == Init /\ [][NextValues]_vars

\* the across-track and along-track coordinates of the tie points: strictly monotone
\* in either direction
TieXAxes ==
    LET asc == {<<a, b, c>> : a \in 0..2, b \in 1..4, c \in 2..6}
    IN  {s \in asc : s[1] < s[2] /\ s[2] < s[3]} \cup
        {Reverse(s) : s \in {t \in asc : t[1] < t[2] /\ t[2] < t[3]}}

TieYAxes == {<<a, b>> : a \in 0..3, b \in 0..3} \ {<<a, a>> : a \in 0..3}

\* _tie_to_img(tie_arr, suffix) on a tie-point grid of two rows and three columns
FnTieToImg ==
    /\ NoCall
    /\ \E xs \in TieXAxes, ys \in TieYAxes :
        LET x_tx == [r \in 1..2 |-> xs]
            y_tx == [r \in 1..2 |-> [c \in 1..3 |-> ys[r]]]
            tie_arr == [r \in 1..2 |-> [c \in 1..3 |-> 10 * r + c]]
        IN  /\ call' = [op |-> "tie_to_img", x_tx |-> x_tx, y_tx |-> y_tx,
                        tie_arr |-> tie_arr, out |-> TieToImg(x_tx, y_tx, tie_arr)]
            /\ UNCHANGED product

NextTie == FnTieToImg

SpecTie == Init /\ [][NextTie]_vars

\* at most this many pixels differ from the rest of a flag raster
MaxSpeckle == 2

\* the flag rasters: a few pixels of one value among pixels of another, or the
\* raster split at a column
Patterns ==
    {S \in SUBSET Pixels : Cardinality(S) <= MaxSpeckle \/ Cardinality(S) >= NPixels - MaxSpeckle}
    \cup {{i \in Pixels : ColOf(i) < k} : k \in 0..Width}

\* pairs of flag values: 0b0110, 0b1000, thin cirrus (bit 8), nothing
FlagPairs == {<<6, 8>>, <<8, 6>>, <<6, 0>>, <<256, 8>>, <<0, 256>>}

BitIdSets == {{0, 1, 2}, AllIds, CloudIds, {CirId}}

NodataMasks == {[i \in Pixels |-> 0], [i \in Pixels |-> IF i = 1 THEN 1 ELSE 0]}

\* _create_mask(bit_array, bit_ids, nodata)
FnCreateMask ==
    /\ NoCall
    /\ \E S \in Patterns, vals \in FlagPairs, bit_ids \in BitIdSets, nodata \in NodataMasks :
        LET bit_array == [i \in Pixels |-> IF i \in S THEN vals[1] ELSE vals[2]]
        IN  /\ call' = [op |-> "create_mask", bit_array |-> bit_array,
                        bit_ids |-> bit_ids, nodata |-> nodata,
                        out |-> CreateMask(bit_array, bit_ids, nodata)]
            /\ UNCHANGED product

NextMask == FnCreateMask

SpecMask == Init /\ [][NextMask]_vars

\* ndarray.astype(np.uint16) of a value read as float: the word modulo 2^16; the
\* conversion of not-a-number is left to the platform, nan_cast is what it gives
AsUint16(x, nan_cast) == IF IsNan(x) THEN nan_cast ELSE x[1] % 65536

\* np.isnan on an integer: the integer as a float, which is a number
IsNanInt(v) == IsNan(<<v>>)

\* _load_clouds(bands, resolution, size) for one band, on the raster read from the
\* path _preprocess returned for the cloud flags
LoadClouds(raster, band, nan_cast) ==
    LET clouds_array == [i \in Pixels |-> AsUint16(raster[i], nan_cast)]
        nodata == [i \in Pixels |-> IF IsNanInt(clouds_array[i]) THEN 1 ELSE 0]
    IN  CASE band = "ALL_CLOUDS" ->
                [kind |-> "ok", clouds_array |-> clouds_array, nodata |-> nodata,
                 band |-> CreateMask(clouds_array, AllIds, nodata).mask]
          [] band = "CLOUDS" ->
                [kind |-> "ok", clouds_array |-> clouds_array, nodata |-> nodata,
                 band |-> CreateMask(clouds_array, CloudIds, nodata).mask]
          [] band = "CIRRUS" ->
                [kind |-> "ok", clouds_array |-> clouds_array, nodata |-> nodata,
                 band |-> CreateMask(clouds_array, {CirId}, nodata).mask]
          [] band = "RAW_CLOUDS" ->
                [kind |-> "ok", clouds_array |-> clouds_array, nodata |-> nodata,
                 band |-> clouds_array]
          [] OTHER ->
                [kind |-> "InvalidTypeError", clouds_array |-> clouds_array,
                 nodata |-> nodata, band |-> <<>>]

\* the geocoded cloud flags: one word everywhere, undefined outside the swath (at
\* one pixel, or left of a column)
CloudRasters ==
    LET holes == {{i} : i \in Pixels} \cup {{i \in Pixels : ColOf(i) < k} : k \in 0..Width}
    IN  {[i \in Pixels |-> IF i \in U THEN NaN ELSE <<v>>] : U \in holes, v \in {0, 6, 256}}

\* what the platforms make of not-a-number cast to uint16
NanCasts == {0, 65535}

\* _load_clouds([band], resolution)
FnLoadClouds ==
    /\ NoCall
    /\ \E raster \in CloudRasters, nan_cast \in NanCasts,
          band \in {"ALL_CLOUDS", "CLOUDS", "CIRRUS", "RAW_CLOUDS", "SHADOWS"} :
        call' = [op |-> "load_clouds", raster |-> raster, band |-> band,
                 out |-> LoadClouds(raster, band, nan_cast)]
    /\ UNCHANGED product

NextClouds == FnLoadClouds

SpecClouds == Init /\ [][NextClouds]_vars

\* band values: undefined, 0.0, 0.25
BandDatas == {<<a, b>> : a, b \in {NaN, <<0>>, <<2500>>}}
\* exception flag words: none, ISP_absent, pixel_absent, not_decompressed, all
ExceptionArrays == {<<a, b>> : a, b \in {0, 1, 2, 4, 255}}

\* _manage_invalid_pixels on a band and on the exception flags read for it
FnManageInvalidPixelsSlstr ==
    /\ NoCall
    /\ \E band_data \in BandDatas, qual_arr \in ExceptionArrays :
        call' = [op |-> "manage_invalid_pixels_slstr",
                 band_data |-> band_data, qual_arr |-> qual_arr,
                 out |-> ManageInvalidPixelsSlstr(band_data, qual_arr)]
    /\ UNCHANGED product

\* band values as SNAP writes them: no data, 0.0, 0.25
SnapBandArrays == {<<a, b>> : a, b \in {SnapNoData, 0, 2500}}
\* quality words: none, not_decompressed, saturated08 (RED), saturated17 (NIR), invalid
QualityArrays == {<<a, b>> : a, b \in {0, 4, Pow2(12), Pow2(4), Pow2(24)}}

\* manage_invalid_pixels of an OLCI or SLSTR product processed with SNAP
FnManageInvalidPixels ==
    /\ NoCall
    /\ \E instrument \in {"OLCI", "SLSTR"}, band_arr \in SnapBandArrays,
          band \in {"RED", "NIR"}, has_file \in BOOLEAN, qual_arr \in QualityArrays :
        call' = [op |-> "manage_invalid_pixels", instrument |-> instrument,
                 band_arr |-> band_arr, band |-> band, has_file |-> has_file,
                 qual_arr |-> qual_arr,
                 out |-> ManageInvalidPixels(instrument, band_arr, band, has_file, qual_arr)]
    /\ UNCHANGED product

NextInvalid == FnManageInvalidPixelsSlstr \/ FnManageInvalidPixels

SpecInvalid == Init /\ [][NextInvalid]_vars

(***************************************************************************)
(* csg_product.py: CsgProduct._set_resolution and _read_band.  Resolutions *)
(* are in units of 1/100 m; an argument is a float, None or a pair.        *)
(***************************************************************************)
MaxReads == 2

\* CsgSensorMode
CsgSensorModes ==
    {"S1A", "S1B", "S2A", "S2B", "S2C", "S1_MSOR", "S2_MSOS", "S2_MSJN", "S1_OQR",
     "S2_OQS", "S1_EQR", "S2_EQS", "SM", "PP", "QP", "SC1", "SC2", "NA"}

\* _set_resolution: the table of the complex products (-1.0 when the mode is not
\* listed), the metadata field of the others (mtd_res: <<v>>, or <<>> when the field
\* is missing)
CsgSetResolution(product_type, sensor_mode, mtd_res) ==
    IF product_type = "SCS"
    THEN [kind |-> "ok",
          def_res |-> CASE sensor_mode = "S2A" -> 12
                        [] sensor_mode = "S2B" -> 20
                        [] sensor_mode = "S2C" -> 24
                        [] sensor_mode = "PP" -> 1000
                        [] sensor_mode = "SC1" -> 1500
                        [] sensor_mode = "SC2" -> 5000
                        [] sensor_mode \in {"SM", "QP"} -> 250
                        [] OTHER -> -100]
    ELSE IF mtd_res = <<>>
         THEN [kind |-> "InvalidProductError", def_res |-> 0]
         ELSE [kind |-> "ok", def_res |-> mtd_res[1]]

\* an argument: its type and its numbers
Float(v) == [type |-> "float", v |-> <<v>>]
NoneArg == [type |-> "NoneType", v |-> <<>>]

\* resolution < 0.0 raises TypeError unless the resolution is a number
IsNegative(resolution) == resolution.type = "float" /\ resolution.v[1] < 0

\* _read_band with the two replacements in the other order
CsgReadBandRequestFirst(self_resolution, ds_res, resolution) ==
    LET requested == IF IsNegative(resolution) THEN Float(self_resolution) ELSE resolution
    IN  [resolution |-> IF self_resolution < 0 THEN ds_res ELSE self_resolution,
         forwarded |-> requested]

\* _read_band(path, band, resolution): the product's resolution after the call and
\* the resolution handed to super()._read_band; ds_res is ds.res[0] of the file
CsgReadBand(self_resolution, ds_res, resolution) ==
    LET known == IF self_resolution < 0 THEN ds_res ELSE self_resolution
    IN  [resolution |-> known,
         forwarded |-> IF IsNegative(resolution) THEN Float(known) ELSE resolution]

\* the products opened: complex products of every mode, and detected products whose
\* metadata give 3.0 m or no resolution
CsgOpen ==
    /\ csg = NoCsg
    /\ \E product_type \in {"SCS", "DGM"}, sensor_mode \in CsgSensorModes,
          mtd_res \in {<<>>, <<300>>} :
        LET res == CsgSetResolution(product_type, sensor_mode, mtd_res)
        IN  /\ product_type = "SCS" => mtd_res = <<>>
            /\ product_type = "DGM" => sensor_mode \in {"SM", "S1A"}
            /\ csg' = [kind |-> IF res.kind = "ok" THEN "product" ELSE res.kind,
                       product_type |-> product_type, sensor_mode |-> sensor_mode,
                       resolution |-> res.def_res, reads |-> 0,
                       before |-> 0, ds_res |-> 0, requested |-> NoneArg,
                       forwarded |-> NoneArg]
    /\ UNCHANGED <<call, suffix, members, files, gcps, frame, done, stats, ncalls>>

\* pixel sizes of the files read: 1.0 (a file without georeference), 3.0
CsgPixelSizes == {100, 300}

\* the resolution argument: None, unknown (-1.0), 0.0, 5.0, a pair
CsgResolutionArgs ==
    {NoneArg, Float(-100), Float(0), Float(500),
     [type |-> "tuple", v |-> <<500, 500>>]}

\* a call of _read_band on the product
CsgRead ==
    /\ csg.kind = "product"
    /\ csg.reads < MaxReads
    /\ \E ds_res \in CsgPixelSizes, resolution \in CsgResolutionArgs :
        LET out == CsgReadBand(csg.resolution, ds_res, resolution)
        IN  csg' = [csg EXCEPT !.resolution = out.resolution, !.reads = @ + 1,
                               !.before = csg.resolution, !.ds_res = ds_res,
                               !.requested = resolution, !.forwarded = out.forwarded]
    /\ UNCHANGED <<call, suffix, members, files, gcps, frame, done, stats, ncalls>>

NextCsg == CsgOpen \/ CsgRead

SpecCsg == Init /\ [][NextCsg]_vars

(***************************************************************************)
(* Properties                                                              *)
(***************************************************************************)
IsCall(op) == call.op = op

\* the stages of the band pipeline, in the order the design fixes
StageRank(stage) ==
    CASE stage = "adjust" -> 1
      [] stage = "convert" -> 2
      [] stage = "geocode" -> 3
      [] stage = "mask" -> 4

InOrder(hist) ==
    \A i, j \in DOMAIN hist : i < j => StageRank(hist[i]) < StageRank(hist[j])

\* every array of the pipeline: in the frames, in the results, in the band folder
PipelineArrays ==
    UNION {IF frame[c].pc = "idle" THEN {} ELSE {frame[c].arr, frame[c].outer} : c \in Callers}
    \cup UNION {IF done[c].kind = "none" THEN {} ELSE {done[c].pp, done[c].out} : c \in Callers}
    \cup Range(files.pp) \cup Range(files.rad2refl)

\* C1: in every run of the band pipeline the stages happen in the order adjust,
\* convert, geocode, mask: an array is converted only after it was adjusted and
\* before it is geocoded, and it is masked only once geocoded, at the resolution
\* requested; no array goes through a later stage before an earlier one.
C1_StageOrder ==
    /\ \A a \in PipelineArrays :
        /\ InOrder(a.hist)
        /\ "convert" \in Range(a.hist) => "adjust" \in Range(a.hist)
        /\ "mask" \in Range(a.hist) => "geocode" \in Range(a.hist)
    /\ \A c \in Callers :
        (done[c].kind = "ok" /\ done[c].op = "load") =>
            /\ done[c].out.hist = <<"adjust", "convert", "geocode", "mask">>
            /\ done[c].out.res = done[c].req.res

C1_Witness ==
    /\ done[1].kind = "ok"
    /\ done[1].op = "load"
    /\ done[1].req.band = "SWIR_1"
    /\ done[1].req.res = 1000
    /\ stats.pp_built[<<"SWIR_1", 1000>>] = 1
    /\ done[1].out.hist = <<"adjust", "convert", "geocode", "mask">>
    /\ done[1].out.res = 1000

\* C2: the preprocessed array a request (band, resolution, calibration profile)
\* gets back was computed with that profile and at that resolution: a file cached
\* under one profile is never returned for a request that names another one.
C2_Original ==
    \A c \in Callers :
        (/\ done[c].kind = "ok"
         /\ done[c].op = "load"
         /\ done[c].req.rad_adjust \in SlstrRadAdjustNames) =>
            /\ done[c].pp.coeff =
                    RadCoeff(done[c].req.band, done[c].req.rad_adjust, <<"a", done[c].pp.view>>)
            /\ done[c].pp.res = done[c].req.res

\* C3: the GCPs of a suffix are constructed exactly once: never twice, once as soon
\* as a geocode for the suffix has reprojected, and the geocode calls with the same
\* suffix and inputs return equal outputs.
C3_Original ==
    \A s \in SLSTR_SUFFIX :
        /\ stats.gcps_built[s] <= 1
        /\ stats.geocoded[s] > 0 => stats.gcps_built[s] = 1
        /\ \A r \in Resolutions : Cardinality(stats.geo_out[<<s, r>>]) <= 1

\* C4: with two callers requesting the same key at the same time, the computation
\* of a preprocessed band, of the GCPs of a suffix and of a radiance-to-reflectance
\* coefficient runs at most once, and both callers get the same result.
C4_Original ==
    /\ \A k \in PPKeys : stats.pp_built[k] <= 1
    /\ \A s \in SLSTR_SUFFIX : stats.gcps_built[s] <= 1
    /\ \A b \in Bands : stats.r2r_built[b] <= 1
    /\ (/\ done[1].kind = "ok"
        /\ done[2].kind = "ok"
        /\ done[1].op = done[2].op
        /\ done[1].req = done[2].req) => done[1].out = done[2].out

C5_RadianceAdjustment ==
    (IsCall("radiance_adjustment") /\ IsBandKey(call.band)) =>
        LET key == <<SlstrBandNames[call.band], call.suffix[2]>>
            listed == ListedOf(call.rad_adjust)
        IN  /\ key \in DOMAIN listed =>
                \A i \in DOMAIN call.px : call.out[i] * 100 = call.px[i] * listed[key]
            /\ key \notin DOMAIN listed => call.out = call.px
            /\ call.rad_adjust = "NONE" => call.out = call.px
            /\ (call.rad_adjust = "S3_PN_SLSTR_L1_08" /\ key = <<"S5", "n">>) =>
                \A i \in DOMAIN call.px : call.px[i] = 100000 => call.out[i] = 111000
            /\ key[1] = "S4" => call.out = call.px

C5_Witness ==
    /\ IsCall("radiance_adjustment")
    /\ call.rad_adjust = "S3_PN_SLSTR_L1_08"
    /\ call.band = "SWIR_1"
    /\ call.suffix = <<"a", "n">>
    /\ call.px = <<100000, 2500>>
    /\ call.out = <<111000, 2775>>

\* C6: band resolution returns the mapped raw channel for every band of the product's
\* mapping and fails, naming the band and the product's type, for every other band;
\* it never returns a default channel.
C6_BandResolution ==
    IsCall("get_snap_band_name") =>
        LET m == S3Map(call.ptype)
        IN  /\ call.band \in DOMAIN m =>
                /\ call.out.kind = "ok"
                /\ call.out.band_nb = m[call.band]
                /\ call.out.name[2] = m[call.band]
            /\ call.band \notin DOMAIN m =>
                /\ call.out.kind = "InvalidProductError"
                /\ call.out.band = call.band
                /\ call.out.data_type = DataType(call.ptype)

C6_Witness ==
    /\ IsCall("get_snap_band_name")
    /\ call.ptype = "OLCI_EFR"
    /\ call.band = "SWIR_1"
    /\ call.out = [kind |-> "InvalidProductError", band |-> "SWIR_1", data_type |-> "EFR"]

\* the bands of the index's needed set that the dictionary lacks
Absent == Range(NEEDED_BANDS[call.idx]) \ Range(call.keys)

\* the bands an error names
ErrorBands(out) == IF out.kind = "KeyError" THEN {out.band} ELSE {}

\* C7: an evaluation lacking a needed band fails with an error that names
\* the absent bands, before any part of the formula has been computed.
C7_Original ==
    (IsCall("evaluate") /\ Absent # {}) =>
        /\ call.out.kind # "ok"
        /\ ErrorBands(call.out) = Absent
        /\ call.out.ops_done = 0

\* C8: the result of an evaluation carries the spatial metadata (resolution,
\* projection, no-data, attributes) of the first array of the dictionary and is
\* named after the index.
C8_Metadata ==
    (IsCall("evaluate") /\ Absent = {}) =>
        /\ call.out.kind = "ok"
        /\ call.out.xda.res = call.arrs[1].res
        /\ call.out.xda.crs = call.arrs[1].crs
        /\ call.out.xda.nodata = call.arrs[1].nodata
        /\ call.out.xda.attrs = call.arrs[1].attrs
        /\ call.out.xda.name = call.idx

C8_Witness ==
    /\ IsCall("evaluate")
    /\ call.idx = "NDVI"
    /\ call.keys = <<"RED", "NIR">>
    /\ call.arrs[1] # call.arrs[2]
    /\ call.out.kind = "ok"
    /\ call.out.xda.crs = call.arrs[1].crs
    /\ call.out.xda.name = "NDVI"

AnyBit(v, bit_ids) == \E id \in bit_ids : ReadBit(v, id)

\* C10 as stated: the mask flags a pixel exactly when one of the selected bits is set.
C10_Original ==
    IsCall("create_mask") =>
        \A i \in Pixels :
            (call.out.mask[i] = MaskTrue) <=> AnyBit(call.bit_array[i], call.bit_ids)

\* the polygon of pixel i in the raster img
PolygonAt(i, img) == Flood({i}, img)

\* C10 amended: the condition decoded from the flag raster, before the size filter,
\* is true at a pixel exactly when one of the selected bits is set (bits 0, 1, 2:
\* 0b0110 true, 0b1000 false); the mask keeps it at every defined pixel whose cluster
\* has at least 10 pixels, and the size filter may change it elsewhere.
C10_Amended ==
    IsCall("create_mask") =>
        \A i \in Pixels :
            /\ (call.out.cond[i] = MaskTrue) <=> AnyBit(call.bit_array[i], call.bit_ids)
            /\ call.out.cond[i] \in {MaskTrue, MaskFalse}
            /\ (call.bit_ids = {0, 1, 2} /\ call.bit_array[i] = 6) => call.out.cond[i] = MaskTrue
            /\ (call.bit_ids = {0, 1, 2} /\ call.bit_array[i] = 8) => call.out.cond[i] = MaskFalse
            /\ (Cardinality(PolygonAt(i, call.out.cond)) >= SieveSize /\ call.nodata[i] = 0) =>
                call.out.mask[i] = call.out.cond[i]

\* one pixel 0b0110 among pixels 0b1000: decoded true, removed by the size filter
C10_Witness ==
    /\ IsCall("create_mask")
    /\ call.bit_ids = {0, 1, 2}
    /\ call.bit_array = [i \in Pixels |-> IF i = 2 THEN 6 ELSE 8]
    /\ call.out.cond[2] = MaskTrue
    /\ call.out.mask[2] = MaskFalse
    /\ call.out.mask[3] = MaskFalse

\* the two operands of the normalized difference an index is, on the call's bands
NormDiffOperand(k) == EvalFormula(Formula(call.idx)[k], call.bands).v

\* C12: for every index that is a normalized difference of A and B, at every pixel
\* where A and B are non-negative numbers and A + B is not zero, the result is a
\* number between -1 and 1
C12_NormDiffRange ==
    (IsCall("compute") /\ Formula(call.idx)[1] = "norm_diff") =>
        \A i \in DOMAIN call.out :
            LET A == NormDiffOperand(2)[i]
                B == NormDiffOperand(3)[i]
            IN  (/\ FIsFinite(A) /\ FIsFinite(B)
                 /\ A[1] >= 0 /\ B[1] >= 0
                 /\ A[1] + B[1] # 0) =>
                    /\ FIsFinite(call.out[i])
                    /\ -call.out[i][2] <= call.out[i][1]
                    /\ call.out[i][1] <= call.out[i][2]

\* NDWI reaches -1 where GREEN is zero
C12_Witness ==
    /\ IsCall("compute")
    /\ call.idx = "NDWI"
    /\ call.bands["GREEN"] = <<<<0, 1>>, <<1, 5>>>>
    /\ call.bands["NIR"] = <<<<1, 5>>, <<2, 5>>>>
    /\ call.out = <<<<-1, 1>>, <<-1, 3>>>>

\* C13: NDVI is (NIR - RED) / (NIR + RED) at every pixel where the sum is not zero;
\* RED = [0.2, 0.4] and NIR = [0.6, 0.8] give [0.5, 1/3]
C13_Ndvi ==
    (IsCall("compute") /\ call.idx = "NDVI") =>
        /\ \A i \in DOMAIN call.out :
            LET nir == call.bands["NIR"][i]
                red == call.bands["RED"][i]
                diff == nir[1] * red[2] - red[1] * nir[2]
                sum == nir[1] * red[2] + red[1] * nir[2]
            IN  (FIsFinite(nir) /\ FIsFinite(red) /\ sum # 0) =>
                    /\ FIsFinite(call.out[i])
                    /\ call.out[i][1] * sum = call.out[i][2] * diff
        /\ (/\ call.bands["RED"] = <<<<1, 5>>, <<2, 5>>>>
            /\ call.bands["NIR"] = <<<<3, 5>>, <<4, 5>>>>) =>
                call.out = <<<<1, 2>>, <<1, 3>>>>

C13_Witness ==
    /\ IsCall("compute")
    /\ call.idx = "NDVI"
    /\ call.bands["RED"] = <<<<1, 5>>, <<2, 5>>>>
    /\ call.bands["NIR"] = <<<<3, 5>>, <<4, 5>>>>
    /\ call.out[2] = <<1, 3>>

C15_Original ==
    /\ (IsCall("compute") /\ call.idx = "RGI") =>
        \A i \in DOMAIN call.out :
            call.bands["GREEN"][i] = FZero => FIsNan(call.out[i])
    /\ (IsCall("compute") /\ call.idx = "BAIS2") =>
        \A i \in DOMAIN call.out :
            call.bands["RED"][i] = FZero => FIsNan(call.out[i])

C17_Original ==
    \A c \in Callers :
        (/\ done[c].kind # "none"
         /\ done[c].op = "load"
         /\ done[c].req.band \in ThermalBands) =>
            /\ done[c].kind = "ok"
            /\ done[c].pp.coeff = DefaultCoeff
            /\ done[c].pp.px = ReadNc(done[c].req.band, <<>>, members).px
            /\ done[c].pp.r2r = <<>>

StrictlyIncreasing(s) == \A i \in 1..(Len(s) - 1) : s[i] < s[i + 1]

\* C18: whatever the order of the source axes of a tie-point grid, the two axes
\* handed to the spline are strictly increasing, and every value handed to it sits
\* at the coordinate pair it had in the source grid
C18_Original ==
    IsCall("tie_to_img") =>
        /\ StrictlyIncreasing(call.out.tx)
        /\ StrictlyIncreasing(call.out.ty)
        /\ \A r \in DOMAIN call.out.z : \A c \in DOMAIN call.out.z[r] :
            \E r0 \in DOMAIN call.tie_arr : \E c0 \in DOMAIN call.tie_arr[r0] :
                /\ call.x_tx[r0][c0] = call.out.tx[c]
                /\ call.y_tx[r0][c0] = call.out.ty[r]
                /\ call.tie_arr[r0][c0] = call.out.z[r][c]

\* C19: a load whose calibration profile is no member of SlstrRadAdjust ends with an
\* error, whether the preprocessed band is cached or not, and it has read no band
\* data at any point of its run
C19_Original ==
    \A c \in Callers :
        /\ (/\ done[c].kind # "none"
            /\ done[c].op = "load"
            /\ done[c].req.rad_adjust \notin SlstrRadAdjustNames) =>
                done[c].kind = "AssertionError"
        /\ (/\ frame[c].pc # "idle"
            /\ frame[c].op = "load"
            /\ frame[c].req.rad_adjust \notin SlstrRadAdjustNames) =>
                frame[c].arr.src = <<>>

\* the step of caller c leaves the statement pc
Leaves(c, pc) == frame[c].pc = pc /\ frame'[c].pc # pc

\* no file of the kinds in kinds that exists is changed or removed by the step
Kept(kinds) ==
    \A kind \in kinds : \A k \in DOMAIN files[kind] :
        k \in DOMAIN files'[kind] /\ files'[kind][k] = files[kind][k]

\* a step that writes a preprocessed band, a radiance-to-reflectance coefficient or
\* a solar-zenith grid writes a file that does not exist
WritesNewCache ==
    /\ \A k \in PPKeys : stats'.pp_built[k] # stats.pp_built[k] => k \notin DOMAIN files.pp
    /\ \A b \in Bands : stats'.r2r_built[b] # stats.r2r_built[b] => b \notin DOMAIN files.r2r
    /\ \A c \in Callers : Leaves(c, "sza_save") => suffix \notin DOMAIN files.sza

\* a step that writes a reflectance debug raster writes a file that does not exist
WritesNewDebug ==
    \A c \in Callers : Leaves(c, "pp_debug_write") => frame[c].band \notin DOMAIN files.rad2refl

\* C20: after any sequence of preprocess calls, no persisted file (preprocessed band,
\* reflectance debug raster, radiance-to-reflectance coefficient, solar-zenith grid)
\* that exists is written again or changed
C20_Original ==
    [][/\ Kept({"pp", "rad2refl", "r2r", "sza"})
       /\ WritesNewCache
       /\ WritesNewDebug]_vars

\* C20 amended: the preprocessed bands, the radiance-to-reflectance coefficients and
\* the solar-zenith grids are written at most once and never changed by calls made
\* one after the other; the reflectance debug raster of a band is written again
\* by every conversion of that band that misses the cache
C20_Amended ==
    [][/\ Kept({"pp", "r2r", "sza"})
       /\ WritesNewCache
       /\ \A c \in Callers :
            Leaves(c, "pp_debug_write") =>
                /\ frame[c].path \notin DOMAIN files.pp
                /\ frame[c].band \in DOMAIN files'.rad2refl]_vars

\* SWIR_1 loaded at 500 m, at 1000 m, and at 500 m again: each file of the three
\* kinds was written once
C20_Witness ==
    /\ ncalls = 3
    /\ frame[1].pc = "idle"
    /\ done[1].kind = "ok"
    /\ done[1].req.band = "SWIR_1"
    /\ stats.pp_built[<<"SWIR_1", 500>>] = 1
    /\ stats.pp_built[<<"SWIR_1", 1000>>] = 1
    /\ stats.pp_built[<<"GREEN", 500>>] = 0
    /\ stats.pp_built[<<"GREEN", 1000>>] = 0
    /\ stats.r2r_built["SWIR_1"] = 1
    /\ "SWIR_1" \in DOMAIN files.rad2refl

\* the position of a name among the members of the module
MemberAt(name) == CHOOSE i \in DOMAIN ModuleMembers : ModuleMembers[i].name = name

\* C21: get_all_index_names returns every function defined under @_idx_fct exactly
\* once, in the order of the names, and nothing else; its names are exactly the keys
\* of NEEDED_BANDS
C21_AllIndexNames ==
    IsCall("get_all_index_names") =>
        /\ \A i, j \in DOMAIN call.out : i < j => MemberAt(call.out[i]) < MemberAt(call.out[j])
        /\ \A i \in DOMAIN call.out : ModuleMembers[MemberAt(call.out[i])].decorated
        /\ \A k \in DOMAIN ModuleMembers :
                ModuleMembers[k].decorated => ModuleMembers[k].name \in Range(call.out)
        /\ Range(call.out) = call.needed

C21_Witness ==
    /\ IsCall("get_all_index_names")
    /\ Len(call.out) = 36
    /\ call.out[1] = "AFRI_1_6"
    /\ call.out[36] = "WV_WI"
    /\ "NDVI" \in call.needed

\* C22: the size filter of build_mask removes exactly the flagged clusters that are
\* too small: a flagged pixel in a 4-connected cluster of fewer than 10 flagged pixels
\* is unflagged, a flagged pixel in a cluster of at least 10 stays flagged, and a
\* pixel that was unflagged stays unflagged
C22_Original ==
    IsCall("create_mask") =>
        \A i \in Pixels :
            LET n == Cardinality(PolygonAt(i, call.out.cond))
            IN  /\ (call.out.cond[i] = MaskTrue /\ n < SieveSize) =>
                        call.out.sieved[i] = MaskFalse
                /\ (call.out.cond[i] = MaskTrue /\ n >= SieveSize) =>
                        call.out.sieved[i] = MaskTrue
                /\ call.out.cond[i] = MaskFalse => call.out.sieved[i] = MaskFalse

\* C22 amended: the size filter treats flagged and unflagged clusters alike: a pixel
\* in a cluster of at least 10 pixels keeps its value; a pixel in a cluster of fewer
\* than 10 pixels that touches a cluster of at least 10 takes the other value (a
\* small flagged cluster is unflagged, a small unflagged cluster becomes flagged);
\* a small cluster that touches no cluster at all keeps its value
C22_Amended ==
    IsCall("create_mask") =>
        LET clusters == PolygonsOf(Pixels, call.out.cond)
        IN  \A P \in clusters :
                LET touching == Neighbours(P, clusters)
                    small == Cardinality(P) < SieveSize
                    flips == small /\ \E Q \in touching : Cardinality(Q) >= SieveSize
                    stays == ~small \/ touching = {}
                IN  \A i \in P :
                        /\ flips => call.out.sieved[i] # call.out.cond[i]
                        /\ stays => call.out.sieved[i] = call.out.cond[i]
                        /\ call.out.sieved[i] \in {MaskTrue, MaskFalse}

\* one unflagged pixel (0b1000) among flagged pixels (0b0110) becomes flagged
C22_Witness ==
    /\ IsCall("create_mask")
    /\ call.bit_ids = {0, 1, 2}
    /\ call.bit_array = [i \in Pixels |-> IF i = 2 THEN 8 ELSE 6]
    /\ call.out.cond[2] = MaskFalse
    /\ call.out.sieved[2] = MaskTrue
    /\ call.out.sieved[3] = MaskTrue

\* C23: SLSTR invalid-pixel handling masks every pixel whose exception flags hold any
\* flag other than ISP_absent (bit 0), and leaves unmasked a pixel whose only flag is
\* ISP_absent and whose band value is defined.
C23_Original ==
    IsCall("manage_invalid_pixels_slstr") =>
        \A i \in DOMAIN call.qual_arr :
            /\ call.qual_arr[i] \div 2 # 0 => call.out.mask[i] = MaskTrue
            /\ (call.qual_arr[i] = 1 /\ ~IsNan(call.band_data[i])) =>
                    call.out.mask[i] = MaskFalse

\* C24: in the SLSTR band mapping NARROW_NIR resolves to the raw channel S3, the
\* channel of NIR, and SWIR_CIRRUS is the only band that resolves to S4.
C24_Original ==
    IsCall("compute_e0") =>
        /\ call.band = "NARROW_NIR" =>
            /\ SlstrBandNames[call.band] = "S3"
            /\ SlstrBandNames[call.band] = SlstrBandNames["NIR"]
        /\ SlstrBandNames[call.band] = "S4" => call.band = "SWIR_CIRRUS"

\* a variable that holds no radiance: the exception flags of a channel, the cloud flags
NonRadiance(subdataset) ==
    \/ Len(subdataset) = 2
    \/ Len(subdataset) = 3 /\ subdataset[2] # "radiance"

\* C25: the radiance adjustment leaves a raster that is no radiance unchanged: when
\* _preprocess runs for the exception flags or the cloud flags, asked by file name or
\* through a band, the values that go on to geocoding are the values read, under
\* every adjustment.
C25_Original ==
    [][\A c \in Callers :
        (/\ At(c, "pp_adjust")
         /\ frame[c].op = "preprocess"
         /\ NonRadiance(frame[c].subdataset)
         /\ frame'[c].pc = "pp_geocode")
        => frame'[c].arr.px = frame[c].arr.px]_vars

\* C26: when the construction of the GCPs of a suffix fails, self._gcps holds no entry
\* for the suffix afterwards: an entry is empty only while its construction is under
\* way, so that a later geocode constructs again, and no reprojection is made with an
\* empty sequence.
C26_Original ==
    /\ \A s \in DOMAIN gcps :
            gcps[s] = <<>> => \E c \in Callers : At(c, "gcps_read") /\ frame[c].sfx = s
    /\ \A c \in Callers : At(c, "reproject") => gcps[frame[c].sfx] # <<>>

\* the last part of a name: the suffix it was formatted with
LastOf(name) == name[Len(name)]

\* every member derived from the suffix carries sfx (its view, for the sun angles)
BuiltFrom(mem, sfx) ==
    \A f \in DOMAIN mem :
        LastOf(mem[f]) = IF f \in {"geom_file", "saa_name", "sza_name"} THEN sfx[2] ELSE sfx

\* a change_suffix call of caller c is made in this step: a call that starts and ends
\* at once
ChangeSuffixCalled(c) ==
    /\ frame' = frame
    /\ ncalls' = ncalls + 1
    /\ done'[c].kind # "none"

\* C27: after any sequence of change_suffix calls the suffix is one of an, ao, bn, bo,
\* in, io, fn, fo and every member derived from the suffix is the one built from the
\* current suffix; a change_suffix with any other value fails and leaves the suffix
\* and the members as they were.
C27_ChangeSuffix ==
    /\ [](suffix \in SLSTR_SUFFIX /\ BuiltFrom(members, suffix))
    /\ [][\A c \in Callers :
            ChangeSuffixCalled(c) =>
                IF done'[c].req.sfx \in SLSTR_SUFFIX
                THEN /\ done'[c].kind = "ok"
                     /\ suffix' = done'[c].req.sfx
                ELSE /\ done'[c].kind = "AssertionError"
                     /\ suffix' = suffix
                     /\ members' = members]_vars

C27_Witness ==
    /\ done[1].kind = "AssertionError"
    /\ done[1].op = "change_suffix"
    /\ done[1].req.sfx = <<"t", "x">>
    /\ suffix = <<"b", "n">>
    /\ members.flags_file = <<"flags", <<"b", "n">>>>
    /\ members.sza_name = <<"solar_zenith", "t", "n">>

\* the radiance-to-reflectance coefficient of a band under the suffix sfx: the solar
\* flux of its quality file and the zenith angles of its view, on its grid
CoeffOfSuffix(band, sfx) ==
    LET mem == SetPreprocessMembers(sfx)
    IN  <<ComputeE0(band, mem), <<mem.geom_file, mem.sza_name, sfx>>>>

\* C28: after any sequence of change_suffix and preprocess calls, the radiance-to-
\* reflectance coefficient applied to a band is the one computed from the zenith
\* angles and the irradiance of the suffix selected at the time of the call; a
\* coefficient cached under another suffix is never applied.
C28_Original ==
    [][\A c \in Callers :
        (frame[c].pc \in {"pp_convert", "r2r_save"} /\ frame'[c].pc = "pp_debug_write")
        => frame'[c].arr.r2r = CoeffOfSuffix(frame[c].band, suffix)]_vars

\* C29: when cloud bands are loaded, every pixel that is undefined in the geocoded
\* cloud-flag raster is marked true in the no-data mask handed to _create_mask.
C29_Original ==
    IsCall("load_clouds") =>
        \A i \in Pixels : IsNan(call.raster[i]) => call.out.nodata[i] = 1

\* C30: for a CSG product, after any call of _read_band the product's resolution is
\* not negative and the resolution forwarded to the parent reader is never negative:
\* an unknown (negative) product resolution is first replaced by the pixel size of
\* the file read, then a negative requested resolution by the product's resolution.
C30_ReadBand ==
    (csg.kind = "product" /\ csg.reads > 0) =>
        /\ csg.resolution >= 0
        /\ csg.forwarded.type = "float" => csg.forwarded.v[1] >= 0
        /\ csg.before < 0 => csg.resolution = csg.ds_res
        /\ csg.before >= 0 => csg.resolution = csg.before
        /\ IsNegative(csg.requested) => csg.forwarded = Float(csg.resolution)
        /\ ~IsNegative(csg.requested) => csg.forwarded = csg.requested

\* a complex product of a mode without resolution, read at an unknown resolution
C30_Witness ==
    /\ csg.kind = "product"
    /\ csg.product_type = "SCS"
    /\ csg.sensor_mode = "S1A"
    /\ csg.reads = 1
    /\ csg.before = -100
    /\ csg.requested = Float(-100)
    /\ csg.ds_res = 300
    /\ csg.resolution = 300
    /\ csg.forwarded = Float(300)

====
